---- MODULE Spec2Model ----
(***************************************************************************)
(* Model of the frontend query cache (QueryCache) and its invalidation     *)
(* rule engine (QueryCacheInvalidator),                                    *)
(* src/frontend/src/services/query-cache-invalidation.ts.                  *)
(* with the global state store (global-state-store.ts) and the wager field *)
(* validation hook (hooks/v1/validation.ts), each under a specification of *)
(* its own.                                                                *)
(*                                                                         *)
(* Conventions.  An optional value (T | undefined, T | null) is a set with *)
(* at most one element: None is absent, Some(x) is present.  A key segment *)
(* is a tagged scalar [t, v]; a number carries its decimal text in v.  A   *)
(* JSON text is the sequence of its scalar tokens.  The clock counts       *)
(* milliseconds.  One action is one synchronous call of the public API, or *)
(* the completion of one suspended fetch.                                  *)
(***************************************************************************)
EXTENDS Integers, Sequences, FiniteSets, Bags, TLC

VARIABLES
    now,        \* Date.now()
    maxEntries, \* QueryCache.maxEntries (0: not configured)
    entries,    \* QueryCache.entries, the Map's values in insertion order
    fetchers,   \* QueryCache.fetchers, slot -> fetcher
    inflight,   \* suspended getOrFetch / refetch calls (a bag)
    last,       \* what the most recent call did and returned
    steps,      \* number of API calls made so far
    subscribers, \* QueryCache.subscribers, the Set's members in insertion order
    recent,     \* history: the keys written by set, in the order of their last set
    state,      \* GlobalStateStore.state
    localStorage, \* the item under GlobalStateStore.storageKey, absent or its JSON
    field,      \* a validation hook's React state: value, error, isDirty
    retries,    \* history: parity of the number of fetches that failed refetches started
    storeSubscribers \* GlobalStateStore.subscribers, the Set's members in insertion order

vars == <<now, maxEntries, entries, fetchers, inflight, last, steps, subscribers, recent,
          state, localStorage, field, retries, storeSubscribers>>

----------------------------------------------------------------------------
(* Bounds of the model *)

MaxTime == 1
MaxSteps == 3
MaxInflight == 2
MaxEntriesOpt == 2
MaxRuleSteps == 4
MaxSets == 5
MaxStack == 2
MaxSubSteps == 3
MaxGuardSteps == 4
MaxKeySteps == 3
MaxDispatches == 3
MaxRetrySteps == 3
MaxOverlapSteps == 4
MaxBoundSteps == 5
MaxFailedSteps == 3

----------------------------------------------------------------------------
(* Optional values *)

None == {}
Some(x) == {x}
The(o) == CHOOSE x \in o : TRUE

----------------------------------------------------------------------------
(* Keys and policies *)

Str(s) == [t |-> "string", v |-> s]
Num(s) == [t |-> "number", v |-> s]
Bool(s) == [t |-> "boolean", v |-> s]
Null == [t |-> "null", v |-> "null"]

\* String(x) of a string or a number: the string itself, the number's decimal text.
String(x) == Str(x.v)

BalancesRoot == <<Str("balances"), Str("root")>>
BalancesAccount(address) == <<Str("balances"), Str("account"), Str(address)>>
GamesRoot == <<Str("games"), Str("root")>>
GamesById(gameId) == <<Str("games"), Str("byId"), String(gameId)>>
GamesRecentByAddress(address) == <<Str("games"), Str("recentByAddress"), Str(address)>>
RewardsRoot == <<Str("rewards"), Str("root")>>
RewardsByAddress(address) == <<Str("rewards"), Str("byAddress"), Str(address)>>
ProfileRoot == <<Str("profile"), Str("root")>>
ProfileByAddress(address) == <<Str("profile"), Str("byAddress"), Str(address)>>

Policy(staleTimeMs, refetchOnInvalidate) ==
    [staleTimeMs |-> staleTimeMs, refetchOnInvalidate |-> refetchOnInvalidate]

FallbackPolicy == Policy(30000, TRUE)

QueryPolicies(ns) ==
    CASE ns = Str("balances") -> Some(Policy(3000, TRUE))
      [] ns = Str("games") -> Some(Policy(10000, TRUE))
      [] ns = Str("rewards") -> Some(Policy(5000, TRUE))
      [] ns = Str("profile") -> Some(Policy(60000, TRUE))
      [] OTHER -> None

\* JSON.stringify of one scalar segment, as a token of the JSON text: a string is
\* quoted, a number is its decimal text (null when not finite), null is null.
JsonScalar(seg) ==
    CASE seg.t = "string" -> [quoted |-> TRUE, text |-> seg.v]
      [] seg.t = "number" ->
            [quoted |-> FALSE,
             text |-> IF seg.v \in {"NaN", "Infinity", "-Infinity"} THEN "null" ELSE seg.v]
      [] seg.t = "boolean" -> [quoted |-> FALSE, text |-> seg.v]
      [] OTHER -> [quoted |-> FALSE, text |-> "null"]

\* JSON.stringify(key): the JSON text of the array, token by token.
keyToString(key) == [i \in 1..Len(key) |-> JsonScalar(key[i])]

\* a !== b on scalars: NaN differs from itself.
StrictEq(a, b) == a = b /\ ~(a.t = "number" /\ a.v = "NaN")

\* mutant of hasPrefix: only the namespace is compared
hasPrefixNamespaceOnly(key, prefix) ==
    \/ prefix = <<>>
    \/ key # <<>> /\ StrictEq(key[1], prefix[1])

hasPrefix(key, prefix) ==
    /\ Len(prefix) <= Len(key)
    /\ \A i \in 1..Len(prefix) : StrictEq(key[i], prefix[i])

----------------------------------------------------------------------------
(* The entries Map<string, CacheEntry>: its [slot, value] pairs in           *)
(* insertion order                                                         *)

\* Position of the slot in the Map, 0 when absent.
IndexOf(es, slot) ==
    IF \E i \in 1..Len(es) : es[i].slot = slot
    THEN CHOOSE i \in 1..Len(es) : es[i].slot = slot
    ELSE 0

\* Map.set: an existing slot keeps its position, a new one goes last.
MapSet(es, slot, value) ==
    LET i == IndexOf(es, slot)
    IN IF i = 0 THEN Append(es, [slot |-> slot, value |-> value])
       ELSE [es EXCEPT ![i].value = value]

\* Map.delete
MapDelete(es, slot) == SelectSeq(es, LAMBDA p : p.slot # slot)

\* Map.values()
Values(es) == [i \in 1..Len(es) |-> es[i].value]

get(es, key) ==
    LET i == IndexOf(es, keyToString(key))
    IN IF i = 0 THEN None ELSE Some(es[i].value)

\* mutant of isStale: an entry turns stale only after staleAt has passed
isStaleStrict(es, key) ==
    LET entry == get(es, key)
    IN IF entry = None THEN TRUE
       ELSE IF The(entry).meta.invalidatedAt # None THEN TRUE
       ELSE now > The(entry).meta.staleAt

isStale(es, key) ==
    LET entry == get(es, key)
    IN IF entry = None THEN TRUE
       ELSE IF The(entry).meta.invalidatedAt # None THEN TRUE
       ELSE now >= The(entry).meta.staleAt

\* Array.prototype.sort with (a, b) => a.meta.updatedAt - b.meta.updatedAt: stable.
RECURSIVE InsertSorted(_, _)
InsertSorted(sorted, e) ==
    IF sorted = <<>> THEN <<e>>
    ELSE IF Head(sorted).meta.updatedAt - e.meta.updatedAt <= 0
         THEN <<Head(sorted)>> \o InsertSorted(Tail(sorted), e)
         ELSE <<e>> \o sorted

RECURSIVE SortByUpdatedAt(_)
SortByUpdatedAt(all) ==
    IF all = <<>> THEN <<>>
    ELSE InsertSorted(SortByUpdatedAt(SubSeq(all, 1, Len(all) - 1)), all[Len(all)])

\* mutant of enforceMaxEntries: a store without a bound keeps one entry
enforceMaxEntriesDefaultOne(es) ==
    IF Len(es) <= (IF maxEntries = 0 THEN 1 ELSE maxEntries) THEN es
    ELSE LET all == SortByUpdatedAt(Values(es))
             toRemove == Len(es) - (IF maxEntries = 0 THEN 1 ELSE maxEntries)
             victims == {keyToString(all[i].key) : i \in 1..toRemove}
         IN SelectSeq(es, LAMBDA p : p.slot \notin victims)

\* mutant of enforceMaxEntries: one entry over the bound is tolerated
enforceMaxEntriesOneOver(es) ==
    IF maxEntries = 0 THEN es
    ELSE IF Len(es) <= maxEntries + 1 THEN es
    ELSE LET all == SortByUpdatedAt(Values(es))
             toRemove == Len(es) - maxEntries
             victims == {keyToString(all[i].key) : i \in 1..toRemove}
         IN SelectSeq(es, LAMBDA p : p.slot \notin victims)

enforceMaxEntries(es) ==
    IF maxEntries = 0 THEN es
    ELSE IF Len(es) <= maxEntries THEN es
    ELSE LET all == SortByUpdatedAt(Values(es))
             toRemove == Len(es) - maxEntries
             victims == {keyToString(all[i].key) : i \in 1..toRemove}
         IN SelectSeq(es, LAMBDA p : p.slot \notin victims)

----------------------------------------------------------------------------
(* The effect of one call, threaded through the calls it makes:            *)
(*   entries, inflight: the store;  invoked: keys whose fetcher the call   *)
(*   invoked, in order;  notes: the calls of notify();  delivered: the     *)
(*   subscriber invocations those calls made, in order;  subs: the         *)
(*   subscribers;  raised: an exception is on its way out of the call;     *)
(*   depth: the nesting of refetch -> invalidate -> refetch on the stack.  *)

St0 ==
    [entries |-> entries, inflight |-> inflight, invoked |-> <<>>, notes |-> <<>>,
     delivered |-> <<>>, subs |-> subscribers, raised |-> FALSE, depth |-> 0]

\* The invocations s({key, entry}) of the subscribers subs, in order.
Deliveries(subs, key, entry) ==
    [i \in 1..Len(subs) |-> [to |-> subs[i].id, key |-> key, entry |-> entry]]

\* Position of the first subscriber that throws, 0 when none does.
FirstThrower(subs) ==
    IF \E i \in 1..Len(subs) : subs[i].throws
    THEN CHOOSE i \in 1..Len(subs) :
             subs[i].throws /\ \A j \in 1..(i - 1) : ~subs[j].throws
    ELSE 0

\* mutant of notify: no try around s({key, entry}), so the first subscriber that
\* throws ends the loop and its exception leaves notify
notifyUnguarded(st, key, entry) ==
    LET heard == IF FirstThrower(st.subs) = 0 THEN st.subs
                 ELSE SubSeq(st.subs, 1, FirstThrower(st.subs))
    IN [st EXCEPT !.notes = Append(@, [key |-> key, entry |-> entry]),
                  !.delivered = @ \o Deliveries(heard, key, entry),
                  !.raised = FirstThrower(st.subs) # 0]

\* notify: every subscriber is invoked in the Set's order; what one throws is caught
\* and discarded inside the loop, so nothing is raised.
notify(st, key, entry) ==
    [st EXCEPT !.notes = Append(@, [key |-> key, entry |-> entry]),
               !.delivered = @ \o Deliveries(st.subs, key, entry)]

FetcherOf(key) ==
    IF keyToString(key) \in DOMAIN fetchers THEN Some(fetchers[keyToString(key)]) ELSE None

Task(op, key, fetcher, bg) == [op |-> op, key |-> key, fetcher |-> fetcher, bg |-> bg]

\* mutant of Suspend: a call joins the fetch already in flight for its key
SuspendCoalesced(st, op, key, bg) ==
    IF \E task \in BagToSet(st.inflight) : task.key = key
    THEN st
    ELSE [st EXCEPT !.inflight = @ (+) SetToBag({Task(op, key, The(FetcherOf(key)), bg)}),
                    !.invoked = Append(@, key)]

\* `await fetcher()`: the fetcher is invoked and the call suspends.
Suspend(st, op, key, bg) ==
    [st EXCEPT !.inflight = @ (+) SetToBag({Task(op, key, The(FetcherOf(key)), bg)}),
               !.invoked = Append(@, key)]

\* mutant of set: an overwrite stamps the entry as newly created
setResetsCreatedAt(st, key, data, policy) ==
    LET effectivePolicy ==
            IF policy # None THEN The(policy)
            ELSE IF QueryPolicies(String(key[1])) # None THEN The(QueryPolicies(String(key[1])))
            ELSE FallbackPolicy
        entry ==
            [key |-> key,
             data |-> data,
             policy |-> effectivePolicy,
             meta |-> [createdAt |-> now,
                       updatedAt |-> now,
                       staleAt |-> now + effectivePolicy.staleTimeMs,
                       invalidatedAt |-> IF get(st.entries, key) # None
                                         THEN The(get(st.entries, key)).meta.invalidatedAt
                                         ELSE None]]
    IN notify([st EXCEPT !.entries = enforceMaxEntries(MapSet(@, keyToString(key), entry))],
              key, Some(entry))

\* mutant of set: an evicted entry that has a fetcher is fetched again
setRefetchesEvicted(st, key, data, policy) ==
    LET ts == now
        existing == get(st.entries, key)
        effectivePolicy ==
            IF policy # None THEN The(policy)
            ELSE IF QueryPolicies(String(key[1])) # None THEN The(QueryPolicies(String(key[1])))
            ELSE FallbackPolicy
        entry ==
            [key |-> key,
             data |-> data,
             policy |-> effectivePolicy,
             meta |-> [createdAt |-> IF existing # None THEN The(existing).meta.createdAt ELSE ts,
                       updatedAt |-> ts,
                       staleAt |-> ts + effectivePolicy.staleTimeMs,
                       invalidatedAt |-> IF existing # None
                                         THEN The(existing).meta.invalidatedAt ELSE None]]
        written == MapSet(st.entries, keyToString(key), entry)
        kept == enforceMaxEntries(written)
        evicted == {written[i].value.key : i \in 1..Len(written)}
                     \ {kept[i].value.key : i \in 1..Len(kept)}
        refetched == {k \in evicted : FetcherOf(k) # None}
        st1 == IF refetched = {} THEN st
               ELSE Suspend(st, "refetch", CHOOSE k \in refetched : TRUE, TRUE)
    IN notify([st1 EXCEPT !.entries = kept], key, Some(entry))

set(st, key, data, policy) ==
    LET ts == now
        existing == get(st.entries, key)
        effectivePolicy ==
            IF policy # None THEN The(policy)
            ELSE IF QueryPolicies(String(key[1])) # None THEN The(QueryPolicies(String(key[1])))
            ELSE FallbackPolicy
        entry ==
            [key |-> key,
             data |-> data,
             policy |-> effectivePolicy,
             meta |-> [createdAt |-> IF existing # None THEN The(existing).meta.createdAt ELSE ts,
                       updatedAt |-> ts,
                       staleAt |-> ts + effectivePolicy.staleTimeMs,
                       invalidatedAt |-> IF existing # None
                                         THEN The(existing).meta.invalidatedAt ELSE None]]
    IN notify([st EXCEPT !.entries = enforceMaxEntries(MapSet(@, keyToString(key), entry))],
              key, Some(entry))

RECURSIVE invalidate(_, _)

\* mutant of refetchStart: the fetcher is never invoked
refetchStartNothing(st, key, bg) == st

\* The start of refetch(key): up to its `await` when the fetcher returns a promise.
\* A fetcher that throws at once lands in the catch, which calls invalidate, which
\* may call refetch again: the nesting ends when a call overflows the stack at
\* MaxStack; that RangeError leaves the catch of the refetch around it as a
\* rejection, which invalidate discards (void), and the calls below return as usual.
refetchStart(st, key, bg) ==
    IF FetcherOf(key) = None THEN st
    ELSE IF ~The(FetcherOf(key)).sync THEN Suspend(st, "refetch", key, bg)
    ELSE IF st.depth >= MaxStack THEN [st EXCEPT !.raised = TRUE]
    ELSE LET thrown == [st EXCEPT !.invoked = Append(@, key), !.depth = @ + 1]
         IN [invalidate(thrown, key) EXCEPT !.depth = st.depth,
                                            !.raised = IF bg THEN FALSE ELSE @]

\* mutant of invalidate: the entry is deleted instead of marked
invalidateDeletes(st, key) ==
    IF get(st.entries, key) = None THEN st
    ELSE notify([st EXCEPT !.entries = MapDelete(@, keyToString(key))], key, None)

\* mutant of invalidate: the entry is also made to expire now
invalidateExpires(st, key) ==
    LET e == get(st.entries, key)
    IN IF st.raised \/ e = None THEN st
       ELSE LET updated == [The(e) EXCEPT !.meta.invalidatedAt = Some(now),
                                          !.meta.staleAt = now]
                st1 == notify([st EXCEPT !.entries = MapSet(@, keyToString(key), updated)],
                              key, Some(updated))
            IN IF ~st1.raised /\ updated.policy.refetchOnInvalidate
               THEN refetchStart(st1, key, TRUE)
               ELSE st1

invalidate(st, key) ==
    LET e == get(st.entries, key)
    IN IF st.raised \/ e = None THEN st
       ELSE LET updated == [The(e) EXCEPT !.meta.invalidatedAt = Some(now)]
                st1 == notify([st EXCEPT !.entries = MapSet(@, keyToString(key), updated)],
                              key, Some(updated))
            IN IF ~st1.raised /\ updated.policy.refetchOnInvalidate
               THEN refetchStart(st1, key, TRUE)
               ELSE st1

\* mutant of getOrFetchHit: the cached data is returned and revalidated in the
\* background
getOrFetchHitRevalidates(st, key) == refetchStart(st, key, TRUE)

\* getOrFetch on an entry that is not stale: the data is returned at once.
getOrFetchHit(st, key) == st

\* mutant of missingFetcher: the key that cannot be fetched is marked invalidated
missingFetcherInvalidates(st, key) == invalidate(st, key)

\* getOrFetch or refetch without a registered fetcher: the error is returned.
missingFetcher(st, key) == st

\* mutant of ErrorResult: what was caught is thrown again
ErrorRethrown(e) == [tag |-> "throw", val |-> e]

\* return { error: toAppError(e, undefined, { key }) }
ErrorResult(e) == [tag |-> "error", val |-> e]

\* mutant of fetchResolved: data fetched for a key that was written meanwhile is dropped
fetchResolvedKeepsNewer(st, key, data) ==
    IF get(st.entries, key) # None /\ The(get(st.entries, key)).meta.invalidatedAt = None
    THEN st
    ELSE set(st, key, data, None)

\* `this.set(key, data)` with the data the fetcher resolved to.
fetchResolved(st, key, data) == set(st, key, data, None)

\* mutant of getOrFetchFailed: the failure marks the entry, as in refetch
getOrFetchFailedInvalidates(st, key) == invalidate(st, key)

\* The catch branch of getOrFetch: the error is returned, the store is left alone.
getOrFetchFailed(st, key) == st

\* mutant of refetchFailed: the failure is returned and the entry is left unmarked
refetchFailedSilent(st, key) == st

\* The catch branch of refetch: the data is kept, the entry is marked invalidated.
refetchFailed(st, key) == invalidate(st, key)

RECURSIVE InvalidateEach(_, _)
InvalidateEach(st, keys) ==
    IF keys = <<>> \/ st.raised THEN st
    ELSE InvalidateEach(invalidate(st, Head(keys)), Tail(keys))

\* The keys of the stored entries, in the Map's order.
KeysOf(es) == [i \in 1..Len(es) |-> es[i].value.key]

invalidatePrefix(st, prefix) ==
    InvalidateEach(st, SelectSeq(KeysOf(st.entries), LAMBDA k : hasPrefix(k, prefix)))

remove(st, key) ==
    notify([st EXCEPT !.entries = MapDelete(@, keyToString(key))], key, None)

clear(st) ==
    LET NotifyEach[i \in 0..Len(st.entries)] ==
            IF i = 0 THEN st
            ELSE IF NotifyEach[i - 1].raised THEN NotifyEach[i - 1]
            ELSE notify(NotifyEach[i - 1], st.entries[i].value.key, None)
    IN IF NotifyEach[Len(st.entries)].raised THEN NotifyEach[Len(st.entries)]
       ELSE [NotifyEach[Len(st.entries)] EXCEPT !.entries = <<>>]

\* A call's result beside its effect on the store.
Ret(tag, val) == [tag |-> tag, val |-> val]
Void == Ret("void", "")

\* mutant of ensureDependencies: only the first dependency is looked at
ensureDependenciesFirstOnly(st, parent, deps) ==
    IF deps # <<>> /\ isStale(st.entries, Head(deps))
    THEN [st |-> [invalidate(st, parent) EXCEPT !.raised = FALSE],
          ret |-> Ret("error", "Dependency stale")]
    ELSE [st |-> st, ret |-> Ret("ok", "")]

\* The loop of ensureDependencies: the first stale dependency invalidates the
\* parent and ends the call with {ok: false}; so does the catch around the loop.
RECURSIVE ensureDependencies(_, _, _)
ensureDependencies(st, parent, deps) ==
    IF deps = <<>> THEN [st |-> st, ret |-> Ret("ok", "")]
    ELSE IF isStale(st.entries, Head(deps))
    THEN [st |-> [invalidate(st, parent) EXCEPT !.raised = FALSE],
          ret |-> Ret("error", "Dependency stale")]
    ELSE ensureDependencies(st, parent, Tail(deps))

----------------------------------------------------------------------------
(* QueryCacheInvalidator *)

RECURSIVE BalanceKeys(_)
BalanceKeys(addresses) ==
    IF addresses = <<>> THEN <<>>
    ELSE <<BalancesAccount(Head(addresses))>> \o BalanceKeys(Tail(addresses))

\* mutant of invalidateBalances: a balance that is not cached is fetched
invalidateBalancesPrefetches(st, addresses) ==
    LET Each[i \in 0..Len(addresses)] ==
            IF i = 0 THEN st
            ELSE IF get(Each[i - 1].entries, BalancesAccount(addresses[i])) = None
            THEN refetchStart(Each[i - 1], BalancesAccount(addresses[i]), TRUE)
            ELSE invalidate(Each[i - 1], BalancesAccount(addresses[i]))
    IN Each[Len(addresses)]

invalidateBalances(st, addresses) == InvalidateEach(st, BalanceKeys(addresses))

RECURSIVE RecentKeys(_)
RecentKeys(addresses) ==
    IF addresses = <<>> THEN <<>>
    ELSE <<GamesRecentByAddress(Head(addresses))>> \o RecentKeys(Tail(addresses))

\* mutant of invalidateCoinFlip: the game's own record is skipped
invalidateCoinFlipRecentOnly(st, addresses, gameId) ==
    InvalidateEach(st, RecentKeys(addresses))

invalidateCoinFlip(st, addresses, gameId) ==
    LET st1 == IF gameId # None
               THEN invalidate(st, GamesById(String(The(gameId))))
               ELSE st
    IN InvalidateEach(st1, RecentKeys(addresses))

RECURSIVE BadgeKeys(_)
BadgeKeys(addresses) ==
    IF addresses = <<>> THEN <<>>
    ELSE <<RewardsByAddress(Head(addresses)), ProfileByAddress(Head(addresses))>>
             \o BadgeKeys(Tail(addresses))

\* mutant of invalidateAchievementBadge: the profile is forgotten
invalidateAchievementBadgeRewardsOnly(st, addresses) ==
    InvalidateEach(st, [i \in 1..Len(addresses) |-> RewardsByAddress(addresses[i])])

invalidateAchievementBadge(st, addresses) == InvalidateEach(st, BadgeKeys(addresses))

\* The reason applyRules derives from the outcome.
ReasonOf(outcome) ==
    IF outcome.ok THEN "tx_success"
    ELSE IF outcome.retryable THEN "tx_failed_retryable"
    ELSE "tx_failed_terminal"

\* The event applyRules hands to the store: stamped, with the outcome's txHash.
StampedEvent(outcome, event) ==
    [event EXCEPT
        !.at = now,
        !.reason = ReasonOf(outcome),
        !.contractTx =
            IF @ # None
            THEN Some([The(@) EXCEPT !.txHash = IF outcome.ok THEN outcome.txHash ELSE @])
            ELSE @]

EventAddresses(evt) ==
    IF evt.contractTx # None /\ The(evt.contractTx).addresses # None
    THEN The(The(evt.contractTx).addresses)
    ELSE IF evt.mutation # None /\ The(evt.mutation).addresses # None
    THEN The(The(evt.mutation).addresses)
    ELSE <<>>

EventContract(evt) ==
    IF evt.contractTx # None THEN Some(The(evt.contractTx).contract) ELSE None

\* mutant of applyRules: the coinFlip rule is applied whatever the contract
applyRulesAnyContract(st, outcome, event) ==
    LET evt == StampedEvent(outcome, event)
        addresses == EventAddresses(evt)
        gameId == IF evt.contractTx # None THEN The(evt.contractTx).gameId ELSE None
        st1 == invalidateBalances(st, addresses)
        st2 == IF EventContract(evt) = Some("prizePool")
               THEN invalidatePrefix(st1, BalancesRoot)
               ELSE st1
        st3 == invalidateCoinFlip(st2, addresses, gameId)
    IN IF EventContract(evt) = Some("achievementBadge")
       THEN invalidateAchievementBadge(st3, addresses)
       ELSE st3

\* mutant of applyRules: a transaction that failed invalidates nothing
applyRulesOnSuccessOnly(st, outcome, event) ==
    IF ~outcome.ok THEN st
    ELSE LET evt == StampedEvent(outcome, event)
             addresses == EventAddresses(evt)
             gameId == IF evt.contractTx # None THEN The(evt.contractTx).gameId ELSE None
             st1 == invalidateBalances(st, addresses)
             st2 == IF EventContract(evt) = Some("prizePool")
                    THEN invalidatePrefix(st1, BalancesRoot)
                    ELSE st1
             st3 == IF EventContract(evt) = Some("coinFlip")
                    THEN invalidateCoinFlip(st2, addresses, gameId)
                    ELSE st2
         IN IF EventContract(evt) = Some("achievementBadge")
            THEN invalidateAchievementBadge(st3, addresses)
            ELSE st3

applyRules(st, outcome, event) ==
    LET evt == StampedEvent(outcome, event)
        addresses == EventAddresses(evt)
        gameId == IF evt.contractTx # None THEN The(evt.contractTx).gameId ELSE None
        st1 == invalidateBalances(st, addresses)
        st2 == IF EventContract(evt) = Some("prizePool")
               THEN invalidatePrefix(st1, BalancesRoot)
               ELSE st1
        st3 == IF EventContract(evt) = Some("coinFlip")
               THEN invalidateCoinFlip(st2, addresses, gameId)
               ELSE st2
    IN IF EventContract(evt) = Some("achievementBadge")
       THEN invalidateAchievementBadge(st3, addresses)
       ELSE st3

----------------------------------------------------------------------------
(* Inputs *)

Data == {"d1", "d2"}

Keys == {GamesById(Str("7")), GamesRecentByAddress("GA"), BalancesAccount("GA")}

Prefixes ==
    {<<>>, <<Str("games")>>, <<Str("games"), Str("byId")>>, <<Str("balances")>>,
     GamesById(Str("7")) \o <<Str("x")>>}

\* the keys the rule engine's runs cache
RuleKeys ==
    {BalancesRoot, BalancesAccount("GA"), BalancesAccount("GB"), GamesById(Str("7")),
     GamesRecentByAddress("GA"), RewardsByAddress("GA"), ProfileByAddress("GA")}

\* the keys the rule engine's runs register fetchers for
RuleFetchKeys == {BalancesAccount("GA"), GamesById(Str("7"))}

RulePolicyArgs == {None, Some(Policy(1, FALSE))}

PolicyArgs == {None, Some(Policy(1, FALSE)), Some(Policy(0, TRUE))}

\* the subscribers: "s2" throws whenever it is invoked
Subscribers ==
    {[id |-> "s1", throws |-> FALSE], [id |-> "s2", throws |-> TRUE],
     [id |-> "s3", throws |-> FALSE]}

\* the keys of the runs with subscribers
SubKeys == {GamesById(Str("7")), BalancesAccount("GA")}

\* the dependency lists handed to ensureDependencies
DepLists ==
    {<<>>} \cup {<<k>> : k \in Keys}
      \cup {<<GamesById(Str("7")), GamesRecentByAddress("GA")>>,
            <<GamesRecentByAddress("GA"), BalancesAccount("GA")>>,
            <<BalancesAccount("GA"), GamesById(Str("7"))>>}

\* fetchers that return a promise: it resolves with value or rejects with it
Fetchers ==
    {[ok |-> TRUE, value |-> "f1", sync |-> FALSE],
     [ok |-> FALSE, value |-> "boom", sync |-> FALSE]}

\* a fetcher that throws before it returns a promise
ThrowingFetcher == [ok |-> FALSE, value |-> "thrown", sync |-> TRUE]

Outcomes ==
    {[ok |-> TRUE, txHash |-> Some("abc"), retryable |-> FALSE],
     [ok |-> FALSE, txHash |-> None, retryable |-> TRUE],
     [ok |-> FALSE, txHash |-> None, retryable |-> FALSE]}

ContractTx(contract, addresses, gameId) ==
    [contract |-> contract, method |-> "m", txHash |-> None,
     addresses |-> addresses, gameId |-> gameId]

Mutation(addresses) == [name |-> "m", addresses |-> addresses]

Event(contractTx, mutation) ==
    [at |-> now, reason |-> "manual", contractTx |-> contractTx, mutation |-> mutation]

AddressLists == {<<"GA">>, <<"GA", "GB">>}

Events ==
    {Event(Some(ContractTx("coinFlip", Some(as), g)), None) :
        as \in AddressLists, g \in {None, Some(Num("7"))}}
      \cup {Event(Some(ContractTx("achievementBadge", Some(as), None)), None) :
               as \in AddressLists}
      \cup {Event(Some(ContractTx("prizePool", Some(<<"GA">>), None)), None),
            Event(Some(ContractTx("randomGenerator", Some(<<"GA">>), Some(Num("7")))), None),
            Event(Some(ContractTx("coinFlip", None, Some(Str("7")))),
                  Some(Mutation(Some(<<"GB">>)))),
            Event(None, Some(Mutation(Some(<<"GB">>)))),
            Event(None, Some(Mutation(None)))}

----------------------------------------------------------------------------
(* GlobalStateStore, src/frontend/src/services/global-state-store.ts.       *)
(* An absent member of an object is None; flags is a function from the     *)
(* flag keys that are set.  A JSON object is a function from the members   *)
(* it has.                                                                 *)

initialState ==
    [auth |-> [isAuthenticated |-> FALSE, userId |-> None, token |-> None,
               updatedAt |-> None],
     wallet |-> [connected |-> FALSE, meta |-> None, lastSyncedAt |-> None],
     flags |-> [k \in {} |-> TRUE]]

\* mutant of reducer: FLAGS_SET writes a flags object holding the named key only
reducerFlagsReplaced(s, action) ==
    CASE action.type = "AUTH_SET" ->
            [s EXCEPT !.auth = [isAuthenticated |-> TRUE,
                                userId |-> Some(action.payload.userId),
                                token |-> Some(action.payload.token),
                                updatedAt |-> Some(now)]]
      [] action.type = "AUTH_CLEAR" -> [s EXCEPT !.auth = initialState.auth]
      [] action.type = "WALLET_SET" ->
            [s EXCEPT !.wallet = [connected |-> TRUE, meta |-> action.payload.meta,
                                  lastSyncedAt |-> Some(now)]]
      [] action.type = "WALLET_CLEAR" -> [s EXCEPT !.wallet = initialState.wallet]
      [] action.type = "FLAGS_SET" ->
            [s EXCEPT !.flags = [k \in {action.payload.key} |-> action.payload.value]]
      [] action.type = "FLAGS_CLEAR" ->
            [s EXCEPT !.flags = [k \in DOMAIN s.flags \ {action.payload.key} |->
                                    s.flags[k]]]
      [] action.type = "RESET_ALL" -> initialState
      [] OTHER -> s

reducer(s, action) ==
    CASE action.type = "AUTH_SET" ->
            [s EXCEPT !.auth = [isAuthenticated |-> TRUE,
                                userId |-> Some(action.payload.userId),
                                token |-> Some(action.payload.token),
                                updatedAt |-> Some(now)]]
      [] action.type = "AUTH_CLEAR" -> [s EXCEPT !.auth = initialState.auth]
      [] action.type = "WALLET_SET" ->
            [s EXCEPT !.wallet = [connected |-> TRUE, meta |-> action.payload.meta,
                                  lastSyncedAt |-> Some(now)]]
      [] action.type = "WALLET_CLEAR" -> [s EXCEPT !.wallet = initialState.wallet]
      [] action.type = "FLAGS_SET" ->
            [s EXCEPT !.flags = [k \in DOMAIN s.flags \cup {action.payload.key} |->
                                    IF k = action.payload.key THEN action.payload.value
                                    ELSE s.flags[k]]]
      [] action.type = "FLAGS_CLEAR" ->
            [s EXCEPT !.flags = [k \in DOMAIN s.flags \ {action.payload.key} |->
                                    s.flags[k]]]
      [] action.type = "RESET_ALL" -> initialState
      [] OTHER -> s

\* JSON.stringify of an AuthState: the members that are undefined are left out.
AuthToJson(auth) ==
    [m \in {"isAuthenticated"} \cup {g \in {"userId", "token", "updatedAt"} : auth[g] # None}
        |-> IF m = "isAuthenticated" THEN auth.isAuthenticated ELSE The(auth[m])]

\* JSON.parse of an AuthState.
AuthFromJson(json) ==
    [isAuthenticated |-> json["isAuthenticated"],
     userId |-> IF "userId" \in DOMAIN json THEN Some(json["userId"]) ELSE None,
     token |-> IF "token" \in DOMAIN json THEN Some(json["token"]) ELSE None,
     updatedAt |-> IF "updatedAt" \in DOMAIN json THEN Some(json["updatedAt"]) ELSE None]

\* mutant of persist: the whole state is written
persistWholeState(s) ==
    [auth |-> AuthToJson(s.auth), flags |-> s.flags, wallet |-> s.wallet, storedAt |-> now]

\* The JSON text persist() hands to localStorage.setItem.
persist(s) ==
    [auth |-> AuthToJson(s.auth), flags |-> s.flags, storedAt |-> now]

\* restore(): null without an item, else the defaults with the stored auth and flags.
restore(item) ==
    IF item = None THEN None
    ELSE Some([initialState EXCEPT
                 !.auth = IF "auth" \in DOMAIN The(item)
                          THEN AuthFromJson(The(item)["auth"])
                          ELSE initialState.auth,
                 !.flags = IF "flags" \in DOMAIN The(item)
                           THEN The(item)["flags"]
                           ELSE initialState.flags])

\* mutant of Rejected: only AUTH_SET is validated
RejectedAuthOnly(action) ==
    /\ action.type = "AUTH_SET"
    /\ action.payload.userId = "" \/ action.payload.token = ""

\* dispatch's validation raises ValidationError
Rejected(action) ==
    \/ /\ action.type = "AUTH_SET"
       /\ action.payload.userId = "" \/ action.payload.token = ""
    \/ /\ action.type = "WALLET_SET"
       /\ action.payload.meta = None \/ The(action.payload.meta).address = ""

\* GlobalStateStore.notify(): every subscriber is called with the state, in the
\* Set's order.
storeNotify(subs, s) == [i \in 1..Len(subs) |-> [to |-> subs[i], state |-> s]]

----------------------------------------------------------------------------
(* Validation hooks, src/frontend/src/hooks/v1/validation.ts *)

(* A text is the sequence of its characters; a ValidationError is its code. *)

Digits == <<"0", "1", "2", "3", "4", "5", "6", "7", "8", "9">>

\* the value of a run of decimal digits
RECURSIVE Decimal(_)
Decimal(text) ==
    IF text = <<>> THEN 0
    ELSE 10 * Decimal(SubSeq(text, 1, Len(text) - 1))
           + (CHOOSE d \in 0..9 : Digits[d + 1] = text[Len(text)])

IsDigits(text) == \A i \in 1..Len(text) : \E d \in 1..10 : Digits[d] = text[i]

\* BigInt(text): the integer a decimal literal with an optional sign denotes;
\* None when BigInt raises SyntaxError.
BigInt(text) ==
    IF text # <<>> /\ text[1] \in {"-", "+"}
    THEN IF Len(text) > 1 /\ IsDigits(Tail(text))
         THEN Some((IF text[1] = "-" THEN -1 ELSE 1) * Decimal(Tail(text)))
         ELSE None
    ELSE IF IsDigits(text) THEN Some(Decimal(text)) ELSE None

Success == [success |-> TRUE, error |-> None]
Failure(code) == [success |-> FALSE, error |-> Some(code)]

validateWager(value, bounds) ==
    IF value = <<>> THEN Failure("REQUIRED")
    ELSE IF BigInt(value) = None THEN Failure("INVALID_TYPE")
    ELSE IF The(BigInt(value)) <= 0 THEN Failure("OUT_OF_RANGE")
    ELSE IF The(BigInt(value)) < bounds.min THEN Failure("OUT_OF_RANGE")
    ELSE IF The(BigInt(value)) > bounds.max THEN Failure("OUT_OF_RANGE")
    ELSE Success

\* the bounds the wager field is used with
WagerBounds == [min |-> 5, max |-> 100]

\* the three useState cells of a hook, after useState(initialValue)
useState(initialValue) == [value |-> initialValue, error |-> None, isDirty |-> FALSE]

\* useWagerValidation's validate(): the error cell follows the validator
validate(f) == [f EXCEPT !.error = validateWager(f.value, WagerBounds).error]

handleSetValue(f, newValue) == [value |-> newValue, error |-> None, isDirty |-> TRUE]

reset(f, newValue) == [value |-> newValue, error |-> None, isDirty |-> FALSE]

touch(f) == validate([f EXCEPT !.isDirty = TRUE])

\* useWagerValidation's isValid
isValid(f) ==
    f.error = None /\ (f.value = <<>> \/ validateWager(f.value, WagerBounds).success)

----------------------------------------------------------------------------
(* State machine *)

Init ==
    /\ now = 0
    /\ maxEntries \in {0, MaxEntriesOpt}
    /\ entries = <<>>
    /\ fetchers = [s \in {} |-> 0]
    /\ inflight = EmptyBag
    /\ last = [op |-> "new", key |-> None, ret |-> Void, bg |-> FALSE,
               invoked |-> <<>>, notes |-> <<>>, delivered |-> <<>>]
    /\ steps = 0
    /\ subscribers = <<>>
    /\ recent = <<>>
    /\ state = initialState
    /\ localStorage = None
    /\ field = useState(<<>>)
    /\ retries = 0
    /\ storeSubscribers = <<>>

\* The call ends (returns or suspends) leaving the store as st.
Finish(op, key, ret, bg, st) ==
    /\ BagCardinality(st.inflight) <= MaxInflight
    /\ entries' = st.entries
    /\ inflight' = st.inflight
    /\ last' = [op |-> op, key |-> key,
                ret |-> IF st.raised THEN Ret("throw", "") ELSE ret,
                bg |-> bg,
                invoked |-> st.invoked, notes |-> st.notes, delivered |-> st.delivered]

Call(op, key, ret, st) ==
    /\ steps' = steps + 1
    /\ Finish(op, key, ret, FALSE, st)
    /\ UNCHANGED <<now, maxEntries, subscribers, recent,
                   state, localStorage, field, retries, storeSubscribers>>

Tick ==
    /\ now < MaxTime
    /\ now' = now + 1
    /\ last' = [op |-> "tick", key |-> None, ret |-> Void, bg |-> FALSE,
                invoked |-> <<>>, notes |-> <<>>, delivered |-> <<>>]
    /\ UNCHANGED <<maxEntries, entries, fetchers, inflight, steps, subscribers, recent,
                   state, localStorage, field, retries, storeSubscribers>>

RegisterFetcher(key, fetcher) ==
    /\ fetchers' = [s \in DOMAIN fetchers \cup {keyToString(key)} |->
                       IF s = keyToString(key) THEN fetcher ELSE fetchers[s]]
    /\ Call("registerFetcher", Some(key), Void, St0)

UnregisterFetcher(key) ==
    /\ fetchers' = [s \in DOMAIN fetchers \ {keyToString(key)} |-> fetchers[s]]
    /\ Call("unregisterFetcher", Some(key), Void, St0)

Set(key, data, policy) ==
    /\ Call("set", Some(key), Ret("entry", data), set(St0, key, data, policy))
    /\ UNCHANGED fetchers

\* The key moves to the end of the history of sets.
Touch(order, key) == SelectSeq(order, LAMBDA k : k # key) \o <<key>>

\* set(key, data, policy), with the history of sets kept.
SetTracked(key, data, policy) ==
    /\ steps' = steps + 1
    /\ Finish("set", Some(key), Ret("entry", data), FALSE, set(St0, key, data, policy))
    /\ recent' = Touch(recent, key)
    /\ UNCHANGED <<now, maxEntries, fetchers, subscribers, state, localStorage, field,
                   retries, storeSubscribers>>

GetOrFetch(key) ==
    /\ LET existing == get(entries, key)
       IN IF existing # None /\ ~isStale(entries, key)
          THEN Call("getOrFetch", Some(key), Ret("data", The(existing).data),
                    getOrFetchHit(St0, key))
          ELSE IF FetcherOf(key) = None
          THEN Call("getOrFetch", Some(key), Ret("error", "Missing fetcher"),
                    missingFetcher(St0, key))
          ELSE IF The(FetcherOf(key)).sync
          THEN Call("getOrFetch", Some(key), ErrorResult(The(FetcherOf(key)).value),
                    getOrFetchFailed([St0 EXCEPT !.invoked = <<key>>], key))
          ELSE Call("getOrFetch", Some(key), Ret("pending", ""),
                    Suspend(St0, "getOrFetch", key, FALSE))
    /\ UNCHANGED fetchers

Refetch(key) ==
    /\ IF FetcherOf(key) = None
       THEN Call("refetch", Some(key), Ret("error", "Missing fetcher"),
                 missingFetcher(St0, key))
       ELSE IF The(FetcherOf(key)).sync
       THEN Call("refetch", Some(key), ErrorResult(The(FetcherOf(key)).value),
                 refetchStart(St0, key, FALSE))
       ELSE Call("refetch", Some(key), Ret("pending", ""), refetchStart(St0, key, FALSE))
    /\ UNCHANGED fetchers

\* getOrFetch after its `await`: the data is written; whatever is raised on the
\* way, by the fetcher or by the write, is caught and returned as {error}.
getOrFetchDone(st, task) ==
    LET written == fetchResolved(st, task.key, task.fetcher.value)
    IN IF task.fetcher.ok /\ ~written.raised
       THEN [st |-> written, ret |-> Ret("data", task.fetcher.value)]
       ELSE IF task.fetcher.ok
       THEN [st |-> getOrFetchFailed([written EXCEPT !.raised = FALSE], task.key),
             ret |-> ErrorResult("raised")]
       ELSE [st |-> getOrFetchFailed(st, task.key), ret |-> ErrorResult(task.fetcher.value)]

\* refetch after its `await`: the same, but its catch first invalidates the key.
refetchDone(st, task) ==
    LET written == fetchResolved(st, task.key, task.fetcher.value)
    IN IF task.fetcher.ok /\ ~written.raised
       THEN [st |-> written, ret |-> Ret("data", task.fetcher.value)]
       ELSE IF task.fetcher.ok
       THEN [st |-> refetchFailed([written EXCEPT !.raised = FALSE], task.key),
             ret |-> ErrorResult("raised")]
       ELSE [st |-> refetchFailed(st, task.key), ret |-> ErrorResult(task.fetcher.value)]

\* A suspended getOrFetch or refetch resumes: its fetcher resolved or rejected.
Settle(task) ==
    /\ BagIn(task, inflight)
    /\ LET st == [St0 EXCEPT !.inflight = @ (-) SetToBag({task})]
           op == IF task.op = "refetch" THEN "refetch.done" ELSE "getOrFetch.done"
           r == IF task.op = "refetch" THEN refetchDone(st, task) ELSE getOrFetchDone(st, task)
       IN Finish(op, Some(task.key), r.ret, task.bg, r.st)
    /\ UNCHANGED <<now, maxEntries, fetchers, steps, subscribers, recent,
                   state, localStorage, field, storeSubscribers>>

Complete(task) == Settle(task) /\ UNCHANGED retries

\* The same, with the fetches that the failure of a refetch starts counted.
CompleteCounted(task) ==
    /\ Settle(task)
    /\ retries' = IF last'.invoked # <<>> THEN 1 - retries ELSE retries

Invalidate(key) ==
    /\ Call("invalidate", Some(key), Void, invalidate(St0, key))
    /\ UNCHANGED fetchers

InvalidatePrefix(prefix) ==
    /\ Call("invalidatePrefix", Some(prefix), Void, invalidatePrefix(St0, prefix))
    /\ UNCHANGED fetchers

Remove(key) ==
    /\ Call("remove", Some(key), Void, remove(St0, key))
    /\ UNCHANGED fetchers

Clear ==
    /\ Call("clear", None, Void, clear(St0))
    /\ UNCHANGED fetchers

\* subscribe(fn): Set.add, a member stays where it is.
Subscribe(s) ==
    /\ subscribers' = IF \E i \in 1..Len(subscribers) : subscribers[i] = s
                      THEN subscribers
                      ELSE Append(subscribers, s)
    /\ last' = [op |-> "subscribe", key |-> None, ret |-> Void, bg |-> FALSE,
                invoked |-> <<>>, notes |-> <<>>, delivered |-> <<>>]
    /\ UNCHANGED <<now, maxEntries, entries, fetchers, inflight, steps, recent,
                   state, localStorage, field, retries, storeSubscribers>>

\* The function subscribe returned: Set.delete.
Unsubscribe(s) ==
    /\ subscribers' = SelectSeq(subscribers, LAMBDA x : x # s)
    /\ last' = [op |-> "unsubscribe", key |-> None, ret |-> Void, bg |-> FALSE,
                invoked |-> <<>>, notes |-> <<>>, delivered |-> <<>>]
    /\ UNCHANGED <<now, maxEntries, entries, fetchers, inflight, steps, recent,
                   state, localStorage, field, retries, storeSubscribers>>

EnsureDependencies(parent, deps) ==
    /\ LET r == ensureDependencies(St0, parent, deps)
       IN Call("ensureDependencies", Some(parent), r.ret, r.st)
    /\ UNCHANGED fetchers

ApplyRules(outcome, event) ==
    /\ Call("applyRules", None, Void, applyRules(St0, outcome, event))
    /\ UNCHANGED fetchers

\* error-mapping's toAppError(rawError, kind?, context?): the normalized AppError
toAppError(e) == "AppError"

\* error-mapping's validatePreconditions(args): an AppError or null
validatePreconditions(args) == {None, Some("PreconditionFailed")}

\* the arguments validateOrThrowPreconditions hands to the checker
PreconditionArgs(opts) ==
    [requireWallet |-> opts.walletConnected = Some(FALSE),
     expectedNetwork |-> opts.expectedNetwork,
     currentNetwork |-> opts.currentNetwork,
     contractAddress |-> opts.contractAddress]

\* mutant of validateOrThrowPreconditions: only a disconnected wallet aborts
validateOrThrowPreconditionsWalletOnly(st, opts, err) ==
    IF err # None /\ PreconditionArgs(opts).requireWallet
    THEN [st |-> st, ret |-> Ret("throw", toAppError(The(err)))]
    ELSE [st |-> st, ret |-> Void]

\* err is what the checker returned for PreconditionArgs(opts)
validateOrThrowPreconditions(st, opts, err) ==
    IF err # None
    THEN [st |-> st, ret |-> Ret("throw", toAppError(The(err)))]
    ELSE [st |-> st, ret |-> Void]

GuardOpts ==
    [walletConnected : {None, Some(TRUE), Some(FALSE)},
     expectedNetwork : {Some("testnet")},
     currentNetwork : {None, Some("testnet"), Some("public")},
     contractAddress : {None, Some("C1")}]

ValidateOrThrowPreconditions(opts, err) ==
    /\ err \in validatePreconditions(PreconditionArgs(opts))
    /\ LET r == validateOrThrowPreconditions(St0, opts, err)
       IN Call("validateOrThrowPreconditions", None, r.ret, r.st)
    /\ UNCHANGED fetchers

\* keys that differ in their last segment only
ScalarKeys ==
    {<<Str("games"), Str("byId"), seg>> :
        seg \in {Str("1"), Num("1"), Num("NaN"), Null, Str("null"), Bool("true"), Str("true")}}

FlagKeys == {"feature_x", "feature_y"}

\* the functions subscribed to the GlobalStateStore
StoreListeners == {"l1", "l2"}

GlobalActions ==
    {[type |-> "AUTH_SET", payload |-> [userId |-> u, token |-> t]] :
        u \in {"", "u1"}, t \in {"", "t1"}}
      \cup {[type |-> "WALLET_SET", payload |-> [meta |-> m]] :
               m \in {None, Some([address |-> ""]), Some([address |-> "GABC"])}}
      \cup {[type |-> "FLAGS_SET", payload |-> [key |-> k, value |-> v]] :
               k \in FlagKeys, v \in BOOLEAN}
      \cup {[type |-> "FLAGS_CLEAR", payload |-> [key |-> k]] : k \in FlagKeys}
      \cup {[type |-> t, payload |-> None] : t \in {"AUTH_CLEAR", "WALLET_CLEAR", "RESET_ALL"}}

\* dispatch(action); setItem raises when the storage is full or unavailable
Dispatch(action, stored) ==
    /\ steps' = steps + 1
    /\ IF Rejected(action)
       THEN /\ last' = [op |-> "dispatch", key |-> Some(action),
                        ret |-> Ret("throw", "ValidationError"), bg |-> FALSE,
                        invoked |-> <<>>, notes |-> <<>>, delivered |-> <<>>]
            /\ UNCHANGED <<state, localStorage>>
       ELSE /\ state' = reducer(state, action)
            /\ localStorage' = IF stored THEN Some(persist(state')) ELSE localStorage
            /\ last' = [op |-> "dispatch", key |-> Some(action),
                        ret |-> Ret("state", action.type), bg |-> FALSE,
                        invoked |-> <<>>, notes |-> <<>>,
                        delivered |-> storeNotify(storeSubscribers, state')]
    /\ UNCHANGED <<now, maxEntries, entries, fetchers, inflight, subscribers, recent, field,
                   retries, storeSubscribers>>

\* GlobalStateStore.subscribe(fn): fn joins the Set and is called with the state
StoreSubscribe(fn) ==
    /\ storeSubscribers' = IF \E i \in 1..Len(storeSubscribers) : storeSubscribers[i] = fn
                           THEN storeSubscribers
                           ELSE Append(storeSubscribers, fn)
    /\ last' = [op |-> "store.subscribe", key |-> None, ret |-> Void, bg |-> FALSE,
                invoked |-> <<>>, notes |-> <<>>,
                delivered |-> <<[to |-> fn, state |-> state]>>]
    /\ UNCHANGED <<now, maxEntries, entries, fetchers, inflight, steps, subscribers,
                   recent, state, localStorage, field, retries>>

\* the function subscribe returned is called
StoreUnsubscribe(fn) ==
    /\ storeSubscribers' = SelectSeq(storeSubscribers, LAMBDA g : g # fn)
    /\ last' = [op |-> "store.unsubscribe", key |-> None, ret |-> Void, bg |-> FALSE,
                invoked |-> <<>>, notes |-> <<>>, delivered |-> <<>>]
    /\ UNCHANGED <<now, maxEntries, entries, fetchers, inflight, steps, subscribers,
                   recent, state, localStorage, field, retries>>

\* new GlobalStateStore(), as after a page reload
GlobalStateStore ==
    /\ state' = IF restore(localStorage) # None THEN The(restore(localStorage))
                ELSE initialState
    /\ last' = [op |-> "new GlobalStateStore", key |-> None, ret |-> Void, bg |-> FALSE,
                invoked |-> <<>>, notes |-> <<>>, delivered |-> <<>>]
    /\ storeSubscribers' = <<>>
    /\ UNCHANGED <<now, maxEntries, entries, fetchers, inflight, steps, subscribers,
                   recent, localStorage, field, retries>>

\* the texts typed into the wager field
WagerTexts ==
    {<<>>, <<"a">>, <<"0">>, <<"3">>, <<"5">>, <<"5", "0">>, <<"1", "0", "1">>, <<"-", "5">>,
     <<"-">>, <<"+", "7">>, <<"1", ".", "5">>}

\* one call of a function the hook returned, and the render that follows
HookCall(op, ret, f) ==
    /\ field' = f
    /\ last' = [op |-> op, key |-> None, ret |-> ret, bg |-> FALSE,
                invoked |-> <<>>, notes |-> <<>>, delivered |-> <<>>]
    /\ UNCHANGED <<now, maxEntries, entries, fetchers, inflight, steps, subscribers,
                   recent, state, localStorage, retries, storeSubscribers>>

SetValue(newValue) == HookCall("setValue", Void, handleSetValue(field, newValue))

Validate ==
    HookCall("validate",
             Ret("boolean", IF validateWager(field.value, WagerBounds).success
                            THEN "true" ELSE "false"),
             validate(field))

\* reset(newValue); without an argument newValue is the initial value
Reset(newValue) == HookCall("reset", Void, reset(field, newValue))

TouchField == HookCall("touch", Void, touch(field))

\* fetchers that resolve to different data, and one that rejects
OverlapFetchers ==
    {[ok |-> TRUE, value |-> "f1", sync |-> FALSE],
     [ok |-> TRUE, value |-> "f2", sync |-> FALSE],
     [ok |-> FALSE, value |-> "boom", sync |-> FALSE]}

Tasks ==
    {Task(op, key, f, bg) :
        op \in {"getOrFetch", "refetch"}, key \in Keys \cup RuleKeys, f \in Fetchers,
        bg \in BOOLEAN}

Next ==
    \/ Tick
    \/ \E task \in Tasks : Complete(task)
    \/ steps < MaxSteps /\ \E key \in Keys, f \in Fetchers : RegisterFetcher(key, f)
    \/ steps < MaxSteps /\ \E key \in Keys : UnregisterFetcher(key)
    \/ steps < MaxSteps /\ \E key \in Keys, data \in Data, policy \in PolicyArgs :
                              Set(key, data, policy)
    \/ steps < MaxSteps /\ \E key \in Keys : GetOrFetch(key)
    \/ steps < MaxSteps /\ \E key \in Keys : Refetch(key)
    \/ steps < MaxSteps /\ \E key \in Keys : Invalidate(key)
    \/ steps < MaxSteps /\ \E prefix \in Prefixes : InvalidatePrefix(prefix)
    \/ steps < MaxSteps /\ \E key \in Keys : Remove(key)
    \/ steps < MaxSteps /\ Clear
    \/ steps < MaxSteps /\ \E parent \in Keys, deps \in DepLists :
                              EnsureDependencies(parent, deps)

Spec == Init /\ [][Next]_vars

\* A suspended fetch resumes once its fetcher settles.
Fairness == \A task \in Tasks : WF_vars(Complete(task))

LiveSpec == Spec /\ Fairness

\* The rule engine at work: callers cache entries, register fetchers, and hand
\* outcomes to applyRules.
RulesNext ==
    \/ \E task \in Tasks : Complete(task)
    \/ steps < MaxRuleSteps /\ \E key \in RuleKeys, policy \in RulePolicyArgs :
                                  Set(key, "d1", policy)
    \/ steps < MaxRuleSteps /\ \E key \in RuleFetchKeys, f \in Fetchers :
                                  RegisterFetcher(key, f)
    \/ steps < MaxRuleSteps /\ \E outcome \in Outcomes, event \in Events :
                                  ApplyRules(outcome, event)

RulesSpec == Init /\ [][RulesNext]_vars

\* The store with subscribers, and with fetchers that may throw at once.
SubNext ==
    \/ \E s \in Subscribers : Subscribe(s)
    \/ \E s \in Subscribers : Unsubscribe(s)
    \/ \E task \in Tasks : Complete(task)
    \/ steps < MaxSubSteps /\ \E key \in SubKeys, f \in Fetchers \cup {ThrowingFetcher} :
                                 RegisterFetcher(key, f)
    \/ steps < MaxSubSteps /\ \E key \in SubKeys, policy \in RulePolicyArgs :
                                 Set(key, "d1", policy)
    \/ steps < MaxSubSteps /\ \E key \in SubKeys : GetOrFetch(key)
    \/ steps < MaxSubSteps /\ \E key \in SubKeys : Refetch(key)
    \/ steps < MaxSubSteps /\ \E key \in SubKeys : Invalidate(key)
    \/ steps < MaxSubSteps /\ \E key \in SubKeys : Remove(key)
    \/ steps < MaxSubSteps /\ Clear

SubSpec == Init /\ [][SubNext]_vars

\* A caller guards its cache-affecting calls with validateOrThrowPreconditions.
GuardNext ==
    \/ \E task \in Tasks : Complete(task)
    \/ steps < MaxGuardSteps /\ \E key \in SubKeys : Set(key, "d1", None)
    \/ steps < MaxGuardSteps /\ \E key \in SubKeys, f \in Fetchers : RegisterFetcher(key, f)
    \/ steps < MaxGuardSteps /\ \E key \in SubKeys : Invalidate(key)
    \/ steps < MaxGuardSteps /\ \E opts \in GuardOpts :
                                   \E err \in validatePreconditions(PreconditionArgs(opts)) :
                                       ValidateOrThrowPreconditions(opts, err)

GuardSpec == Init /\ [][GuardNext]_vars

\* The store under keys whose last segment is a string, a number, a boolean or null.
KeyNext ==
    \/ \E key \in ScalarKeys, f \in Fetchers : Complete(Task("getOrFetch", key, f, FALSE))
    \/ steps < MaxKeySteps /\ \E key \in ScalarKeys, data \in Data : Set(key, data, None)
    \/ steps < MaxKeySteps /\ \E key \in ScalarKeys, f \in Fetchers : RegisterFetcher(key, f)
    \/ steps < MaxKeySteps /\ \E key \in ScalarKeys : GetOrFetch(key)
    \/ steps < MaxKeySteps /\ \E key \in ScalarKeys : Remove(key)

KeySpec == Init /\ [][KeyNext]_vars

\* The global state store under dispatches, page reloads and the passing of time.
StoreNext ==
    \/ Tick
    \/ GlobalStateStore
    \/ steps < MaxDispatches /\ \E action \in GlobalActions, stored \in BOOLEAN :
                                   Dispatch(action, stored)
    \/ \E fn \in StoreListeners : StoreSubscribe(fn)
    \/ \E fn \in StoreListeners : StoreUnsubscribe(fn)

StoreSpec == Init /\ [][StoreNext]_vars

\* The wager field of a form: typing, blur, submit and reset.
FieldNext ==
    \/ \E newValue \in WagerTexts : SetValue(newValue)
    \/ Validate
    \/ \E newValue \in WagerTexts : Reset(newValue)
    \/ TouchField

FieldSpec == Init /\ [][FieldNext]_vars

\* An entry is cached, a fetcher registered, the entry invalidated; every fetch
\* in flight settles in the end.
RetryNext ==
    \/ \E task \in Tasks : CompleteCounted(task)
    \/ steps < MaxRetrySteps /\ \E key \in SubKeys, policy \in RulePolicyArgs :
                                   Set(key, "d1", policy)
    \/ steps < MaxRetrySteps /\ \E key \in SubKeys, f \in Fetchers : RegisterFetcher(key, f)
    \/ steps < MaxRetrySteps /\ \E key \in SubKeys : Invalidate(key)

RetrySpec ==
    Init /\ [][RetryNext]_vars /\ \A task \in Tasks : WF_vars(CompleteCounted(task))

\* Calls that fetch one key overlap, with the fetcher replaced in between.
OverlapNext ==
    \/ Tick
    \/ \E task \in BagToSet(inflight) : Complete(task)
    \/ steps < MaxOverlapSteps /\ \E f \in OverlapFetchers :
                                     RegisterFetcher(GamesById(Str("7")), f)
    \/ steps < MaxOverlapSteps /\ GetOrFetch(GamesById(Str("7")))
    \/ steps < MaxOverlapSteps /\ Refetch(GamesById(Str("7")))

OverlapSpec == Init /\ [][OverlapNext]_vars

\* A store with a bound under writes, invalidations, removals and fetches, with
\* the history of sets kept.
BoundNext ==
    \/ \E task \in Tasks : Complete(task)
    \/ steps < MaxBoundSteps /\ \E key \in Keys : SetTracked(key, "d1", None)
    \/ steps < MaxBoundSteps /\ \E key \in SubKeys :
                                   RegisterFetcher(key, CHOOSE f \in Fetchers : f.ok)
    \/ steps < MaxBoundSteps /\ \E key \in SubKeys : GetOrFetch(key)
    \/ steps < MaxBoundSteps /\ \E key \in SubKeys : Invalidate(key)
    \/ steps < MaxBoundSteps /\ InvalidatePrefix(<<Str("games")>>)
    \/ steps < MaxBoundSteps /\ \E key \in SubKeys : Remove(key)
    \/ steps < MaxBoundSteps /\ Clear

BoundSpec == Init /\ [][BoundNext]_vars

\* The rule engine is handed the outcomes of transactions that failed.
FailedNext ==
    \/ \E task \in Tasks : Complete(task)
    \/ steps < MaxFailedSteps /\ \E key \in RuleKeys, policy \in RulePolicyArgs :
                                    Set(key, "d1", policy)
    \/ steps < MaxFailedSteps /\ \E key \in RuleFetchKeys, f \in Fetchers :
                                    RegisterFetcher(key, f)
    \/ steps < MaxFailedSteps /\ \E outcome \in {o \in Outcomes : ~o.ok}, event \in Events :
                                    ApplyRules(outcome, event)

FailedSpec == Init /\ [][FailedNext]_vars

\* A bounded store under a sequence of set calls.
EvictNext ==
    \/ Tick
    \/ steps < MaxSets /\ \E key \in Keys, data \in Data : SetTracked(key, data, None)

EvictSpec == Init /\ [][EvictNext]_vars

----------------------------------------------------------------------------
(* Properties *)

Entry(es, key) == The(get(es, key))
Has(es, key) == get(es, key) # None

\* key starts element-wise with prefix
StartsWith(key, prefix) ==
    /\ Len(prefix) <= Len(key)
    /\ SubSeq(key, 1, Len(prefix)) = prefix

\* the entry e with nothing but invalidatedAt changed, to the current time
Invalidated(e) == [e EXCEPT !.meta.invalidatedAt = Some(now)]

FailedTasks(op) == {task \in Tasks : task.op = op /\ ~task.fetcher.ok}

\* C1: when its fetcher fails, getOrFetch returns {error} and its completion changes
\* no entry of the store: every key reads as it did just before the completion.
C1_FailedGetOrFetchKeepsStore ==
    [][\A task \in FailedTasks("getOrFetch") :
          Complete(task) =>
              /\ last'.ret.tag = "error"
              /\ entries' = entries
              /\ \A key \in Keys : get(entries', key) = get(entries, key)]_vars

\* C1 witness: a getOrFetch has failed on a key that a set wrote, fresh, while the
\* fetch was suspended (getOrFetch suspends only on a missing or stale key).
C1_Witness ==
    /\ last.op = "getOrFetch.done"
    /\ last.ret.tag = "error"
    /\ ~isStale(entries, The(last.key))

\* C2: when its fetcher fails, refetch returns {error}; an existing entry keeps its
\* data, createdAt, updatedAt and staleAt and has invalidatedAt set, so it reads
\* the same data and is stale; a missing entry is not created.
C2_FailedRefetchMarksInvalidated ==
    [][\A task \in FailedTasks("refetch") :
          Complete(task) =>
              /\ last'.ret.tag = "error"
              /\ IF Has(entries, task.key)
                 THEN /\ Has(entries', task.key)
                      /\ Entry(entries', task.key) = Invalidated(Entry(entries, task.key))
                      /\ Entry(entries', task.key).data = Entry(entries, task.key).data
                      /\ isStale(entries, task.key)'
                 ELSE ~Has(entries', task.key)]_vars

\* C2 witness: a refetch has failed on an entry that was not invalidated before it.
C2_Witness ==
    /\ last.op = "refetch.done"
    /\ last.ret.tag = "error"
    /\ ~last.bg
    /\ Has(entries, The(last.key))
    /\ Entry(entries, The(last.key)).meta.invalidatedAt = Some(now)
    /\ Entry(entries, The(last.key)).meta.updatedAt < now

\* C3 (as claimed): right after set(key, data, policy) returns, get(key).data is data
\* and isStale(key) is false.  Stated for staleTimeMs >= 1: with staleTimeMs = 0 the
\* entry is stale at once, by now >= staleAt.
C3_SetLeavesFresh ==
    (last.op = "set") =>
        /\ Has(entries, The(last.key))
        /\ Entry(entries, The(last.key)).data = last.ret.val
        /\ Entry(entries, The(last.key)).policy.staleTimeMs >= 1
              => ~isStale(entries, The(last.key))

\* the step is a successful write of key: a set, or a fetch that resolved
SuccessfulWrite(key) ==
    /\ last'.key = Some(key)
    /\ \/ last'.op = "set"
       \/ last'.op \in {"getOrFetch.done", "refetch.done"} /\ last'.ret.tag = "data"

\* C4 (as claimed): the next successful write of an invalidated entry (a set, a
\* refetch or getOrFetch that resolves) clears invalidatedAt, and the entry is
\* fresh until the clock reaches its new staleAt.
C4_WriteClearsInvalidation ==
    [][\A key \in Keys :
          (Has(entries, key) /\ Entry(entries, key).meta.invalidatedAt # None
              /\ SuccessfulWrite(key)) =>
              /\ Entry(entries', key).meta.invalidatedAt = None
              /\ isStale(entries, key)' <=> (now' >= Entry(entries', key).meta.staleAt)]_vars

\* invalidate(key) meets an entry with refetchOnInvalidate and a fetcher that resolves
RefetchCase(key) ==
    /\ Has(entries, key)
    /\ Entry(entries, key).policy.refetchOnInvalidate
    /\ FetcherOf(key) # None
    /\ The(FetcherOf(key)).ok

BackgroundRefetches == {task \in Tasks : task.op = "refetch" /\ task.bg /\ task.fetcher.ok}

\* C5: invalidate(key) on an entry with refetchOnInvalidate and a fetcher that
\* resolves invokes the fetcher once and returns, with no fetch result and the data
\* still in place, while the refetch is suspended; the completion invokes no fetcher
\* again, and the entry's data eventually is the fetcher's result.
C5_InvalidateRefetchesInBackground ==
    /\ [][\A key \in Keys :
             (RefetchCase(key) /\ Invalidate(key)) =>
                 /\ last'.invoked = <<key>>
                 /\ last'.ret = Void
                 /\ inflight' = inflight (+) SetToBag({Task("refetch", key, The(FetcherOf(key)), TRUE)})
                 /\ Has(entries', key)
                 /\ Entry(entries', key).data = Entry(entries, key).data]_vars
    /\ [][\A task \in BackgroundRefetches :
             Complete(task) =>
                 /\ last'.invoked = <<>>
                 /\ Has(entries', task.key)
                 /\ Entry(entries', task.key).data = task.fetcher.value]_vars
    /\ \A task \in BackgroundRefetches :
          BagIn(task, inflight) ~>
              (Has(entries, task.key) /\ Entry(entries, task.key).data = task.fetcher.value)

\* C5 witness: a refetch started by invalidate has resolved and replaced the data.
C5_Witness ==
    /\ last.op = "refetch.done"
    /\ last.bg
    /\ last.ret.tag = "data"
    /\ Has(entries, The(last.key))
    /\ Entry(entries, The(last.key)).data = last.ret.val
    /\ Entry(entries, The(last.key)).meta.createdAt < Entry(entries, The(last.key)).meta.updatedAt

\* C6: invalidate changes nothing of an existing entry but meta.invalidatedAt, so the
\* key still reads its data and is stale, and leaves every other entry alone; on a
\* key with no entry it changes nothing, notifies nobody and starts no refetch.
C6_InvalidateNonDestructive ==
    [][\A key \in Keys :
          Invalidate(key) =>
              IF Has(entries, key)
              THEN /\ Has(entries', key)
                   /\ Entry(entries', key) = Invalidated(Entry(entries, key))
                   /\ Entry(entries', key).data = Entry(entries, key).data
                   /\ isStale(entries, key)'
                   /\ \A other \in Keys \ {key} : get(entries', other) = get(entries, other)
              ELSE /\ entries' = entries
                   /\ inflight' = inflight
                   /\ last'.notes = <<>>
                   /\ last'.invoked = <<>>]_vars

\* C6 witness: invalidate has marked an entry that was fresh.
C6_Witness ==
    /\ last.op = "invalidate"
    /\ Has(entries, The(last.key))
    /\ Entry(entries, The(last.key)).meta.invalidatedAt = Some(now)
    /\ now < Entry(entries, The(last.key)).meta.staleAt

Range(seq) == {seq[i] : i \in 1..Len(seq)}

EventGameId(event) ==
    IF event.contractTx # None THEN The(event.contractTx).gameId ELSE None

\* C7 (as claimed): applyRules for a "prizePool" event invalidates every cached entry
\* of the balances namespace, also balances.account(a) of an address the event does
\* not list.
C7_PrizePoolInvalidatesAllBalances ==
    [][\A outcome \in Outcomes, event \in Events :
          (EventContract(event) = Some("prizePool") /\ ApplyRules(outcome, event)) =>
              \A i \in 1..Len(entries) :
                  entries[i].value.key[1] = Str("balances") =>
                      /\ Len(entries') >= i
                      /\ entries'[i].value.meta.invalidatedAt = Some(now)]_vars

\* the keys the coin-flip rule and the balances rule name for the event
CoinFlipKeys(event) ==
    {GamesRecentByAddress(a) : a \in Range(EventAddresses(event))}
      \cup {BalancesAccount(a) : a \in Range(EventAddresses(event))}
      \cup (IF EventGameId(event) # None
            THEN {GamesById(String(The(EventGameId(event))))}
            ELSE {})

\* C8: applyRules for a "coinFlip" event with addresses A and game id g invalidates,
\* when cached, games.byId(String(g)) (if g was supplied) and, for every a in A,
\* games.recentByAddress(a) and balances.account(a): each is stale afterwards.
\* Stated of the store applyRules leaves, from every reachable state.
C8_CoinFlipInvalidates ==
    \A outcome \in Outcomes, event \in Events :
        EventContract(event) = Some("coinFlip") =>
            \A key \in CoinFlipKeys(event) :
                Has(entries, key) =>
                    \A after \in {applyRules(St0, outcome, event).entries} :
                        /\ Has(after, key)
                        /\ Entry(after, key) = Invalidated(Entry(entries, key))
                        /\ isStale(after, key)

NotedKeys == {last.notes[i].key : i \in 1..Len(last.notes)}

\* C8 witness: applyRules has invalidated the cached games.byId("7") (game id 7),
\* games.recentByAddress("GA") and balances.account("GA").
C8_Witness ==
    /\ last.op = "applyRules"
    /\ NotedKeys = {<<Str("games"), Str("byId"), Str("7")>>,
                    <<Str("games"), Str("recentByAddress"), Str("GA")>>,
                    <<Str("balances"), Str("account"), Str("GA")>>}
    /\ \A key \in NotedKeys : Entry(entries, key).meta.invalidatedAt = Some(now)

BadgeKeySet(event) ==
    {RewardsByAddress(a) : a \in Range(EventAddresses(event))}
      \cup {ProfileByAddress(a) : a \in Range(EventAddresses(event))}

\* C9: applyRules for an "achievementBadge" event with addresses A invalidates, when
\* cached, rewards.byAddress(a) and profile.byAddress(a) for every a in A.
\* Stated of the store applyRules leaves, from every reachable state.
C9_AchievementBadgeInvalidates ==
    \A outcome \in Outcomes, event \in Events :
        EventContract(event) = Some("achievementBadge") =>
            \A key \in BadgeKeySet(event) :
                Has(entries, key) =>
                    \A after \in {applyRules(St0, outcome, event).entries} :
                        /\ Has(after, key)
                        /\ Entry(after, key) = Invalidated(Entry(entries, key))
                        /\ isStale(after, key)

\* C9 witness: applyRules has invalidated the cached rewards.byAddress("GA") and
\* profile.byAddress("GA").
C9_Witness ==
    /\ last.op = "applyRules"
    /\ {<<Str("rewards"), Str("byAddress"), Str("GA")>>,
        <<Str("profile"), Str("byAddress"), Str("GA")>>} \subseteq NotedKeys
    /\ \A key \in NotedKeys : Entry(entries, key).meta.invalidatedAt = Some(now)

\* C10: invalidatePrefix(prefix) invalidates every stored entry whose key starts
\* element-wise with prefix and changes no other entry (so prefix ["games"] marks
\* every games entry and leaves the other namespaces alone).
C10_InvalidatePrefixExact ==
    [][\A prefix \in Prefixes :
          InvalidatePrefix(prefix) =>
              /\ Len(entries') = Len(entries)
              /\ \A i \in 1..Len(entries) :
                    IF StartsWith(entries[i].value.key, prefix)
                    THEN entries'[i].value = Invalidated(entries[i].value)
                    ELSE entries'[i] = entries[i]]_vars

\* C10 witness: invalidatePrefix(["games"]) has marked a games entry and left an
\* entry of another namespace not invalidated.
C10_Witness ==
    /\ last.op = "invalidatePrefix"
    /\ last.key = Some(<<Str("games")>>)
    /\ \E i, j \in 1..Len(entries) :
          /\ entries[i].value.key[1] = Str("games")
          /\ entries[i].value.meta.invalidatedAt = Some(now)
          /\ entries[j].value.key[1] # Str("games")
          /\ entries[j].value.meta.invalidatedAt = None

\* the key reads stale: no entry, or invalidatedAt set, or the clock at or past staleAt
StaleNow(es, key) ==
    \/ ~Has(es, key)
    \/ Entry(es, key).meta.invalidatedAt # None
    \/ Entry(es, key).meta.staleAt <= now

\* C11: ensureDependencies(parent, deps) returns {ok: false} and invalidates parent
\* (its cached entry, if any) exactly when some key of deps is stale, leaving every
\* other entry alone; otherwise it returns {ok: true} and changes no entry, notifies
\* nobody and starts no refetch.
C11_EnsureDependencies ==
    [][last'.op = "ensureDependencies" =>
          \A parent \in Keys \cap last'.key, deps \in DepLists :
              EnsureDependencies(parent, deps) =>
              IF \E i \in 1..Len(deps) : StaleNow(entries, deps[i])
              THEN /\ last'.ret.tag = "error"
                   /\ Has(entries, parent) =>
                         /\ Has(entries', parent)
                         /\ Entry(entries', parent) = Invalidated(Entry(entries, parent))
                   /\ \A other \in Keys \ {parent} : get(entries', other) = get(entries, other)
              ELSE /\ last'.ret.tag = "ok"
                   /\ entries' = entries
                   /\ inflight' = inflight
                   /\ last'.notes = <<>>]_vars

\* C11 witness: ensureDependencies has returned {ok: false} and invalidated a parent
\* that was fresh, because of a dependency that is cached and not invalidated but
\* past its staleAt.
C11_Witness ==
    /\ last.op = "ensureDependencies"
    /\ last.ret.tag = "error"
    /\ Has(entries, The(last.key))
    /\ Entry(entries, The(last.key)).meta.invalidatedAt = Some(now)
    /\ now < Entry(entries, The(last.key)).meta.staleAt
    /\ \E dep \in Keys \ last.key :
          /\ Has(entries, dep)
          /\ Entry(entries, dep).meta.invalidatedAt = None
          /\ Entry(entries, dep).meta.staleAt <= now

\* the keys of the stored entries
StoredKeys == {entries[i].value.key : i \in 1..Len(entries)}

\* the n keys most recently written by a set
LastSet(n) == {recent[i] : i \in (Len(recent) - n + 1)..Len(recent)}

\* C12 (as claimed): with maxEntries = N, once set calls have touched more than N
\* distinct keys, the store holds exactly N entries, those of the N keys most
\* recently written by a set, also when several sets happen at one clock value.
C12_EvictionKeepsMostRecent ==
    (maxEntries # 0 /\ Len(recent) > maxEntries) =>
        /\ Len(entries) = maxEntries
        /\ StoredKeys = LastSet(maxEntries)

\* C13 (as claimed): a set on a key that has an entry keeps the entry's createdAt
\* and moves neither updatedAt nor staleAt back.
C13_SetAdvancesTimestamps ==
    [][last'.op = "set" =>
          \A key \in Keys \cap last'.key :
              Has(entries, key) =>
                  /\ Entry(entries', key).meta.createdAt = Entry(entries, key).meta.createdAt
                  /\ Entry(entries', key).meta.updatedAt >= Entry(entries, key).meta.updatedAt
                  /\ Entry(entries', key).meta.staleAt >= Entry(entries, key).meta.staleAt]_vars

\* C13 (amended): a set stores updatedAt = now and staleAt = now + the staleTimeMs of
\* the policy in effect for the call; on a key that has an entry it keeps createdAt,
\* does not move updatedAt back, and does not move staleAt back when the policy's
\* staleTimeMs is not smaller than the entry's; on a new key createdAt = now.
C13_SetTimestamps ==
    [][last'.op = "set" =>
          \A key \in Keys \cap last'.key :
              /\ Has(entries', key)
              /\ Entry(entries', key).meta.updatedAt = now
              /\ Entry(entries', key).meta.staleAt
                    = now + Entry(entries', key).policy.staleTimeMs
              /\ IF Has(entries, key)
                 THEN /\ Entry(entries', key).meta.createdAt
                           = Entry(entries, key).meta.createdAt
                      /\ Entry(entries', key).meta.updatedAt
                           >= Entry(entries, key).meta.updatedAt
                      /\ Entry(entries', key).policy.staleTimeMs
                           >= Entry(entries, key).policy.staleTimeMs
                           => Entry(entries', key).meta.staleAt
                                >= Entry(entries, key).meta.staleAt
                 ELSE Entry(entries', key).meta.createdAt = now]_vars

\* C13 witness: a set with a policy of staleTimeMs = 1 has overwritten an entry that
\* was created at an earlier clock value.
C13_Witness ==
    /\ last.op = "set"
    /\ Has(entries, The(last.key))
    /\ Entry(entries, The(last.key)).meta.createdAt < Entry(entries, The(last.key)).meta.updatedAt
    /\ Entry(entries, The(last.key)).meta.updatedAt = now
    /\ Entry(entries, The(last.key)).meta.staleAt = now + 1

\* C14: isStale(key) is true exactly when the key has no entry, or its entry has
\* invalidatedAt set, or now >= staleAt: an entry that is not invalidated is fresh
\* before staleAt and stale from the instant now = staleAt on; a key with no entry
\* reads none and is stale.
C14_IsStaleExact ==
    \A key \in Keys :
        /\ isStale(entries, key) <=> StaleNow(entries, key)
        /\ ~Has(entries, key) => (get(entries, key) = None /\ isStale(entries, key))
        /\ (Has(entries, key) /\ Entry(entries, key).meta.invalidatedAt = None) =>
              /\ now < Entry(entries, key).meta.staleAt => ~isStale(entries, key)
              /\ now = Entry(entries, key).meta.staleAt => isStale(entries, key)
              /\ now > Entry(entries, key).meta.staleAt => isStale(entries, key)

\* C14 witness: of three keys, one was never written, one holds an entry written with
\* staleTimeMs = 1 one millisecond ago (now = staleAt), one an entry past its staleAt;
\* neither entry is invalidated and both read stale.
C14_Witness ==
    \E k1, k2, k3 \in Keys :
        /\ ~Has(entries, k1) /\ isStale(entries, k1)
        /\ Has(entries, k2) /\ Has(entries, k3)
        /\ Entry(entries, k2).meta.invalidatedAt = None
        /\ Entry(entries, k2).policy.staleTimeMs = 1
        /\ Entry(entries, k2).meta.staleAt = now
        /\ Entry(entries, k3).meta.invalidatedAt = None
        /\ Entry(entries, k3).meta.staleAt < now
        /\ isStale(entries, k2) /\ isStale(entries, k3)

\* C15: getOrFetch(key) on an entry that is not stale returns the entry's data, invokes
\* no fetcher (none is left suspended either), changes no entry and notifies nobody.
C15_FreshHitIsPure ==
    [][last'.op = "getOrFetch" =>
          \A key \in Keys \cap last'.key :
              (Has(entries, key) /\ ~StaleNow(entries, key)) =>
                  /\ last'.ret = Ret("data", Entry(entries, key).data)
                  /\ last'.invoked = <<>>
                  /\ inflight' = inflight
                  /\ entries' = entries
                  /\ last'.notes = <<>>
                  /\ last'.delivered = <<>>]_vars

\* C15 witness: getOrFetch has returned the data of a fresh entry whose key has a
\* registered fetcher.
C15_Witness ==
    /\ last.op = "getOrFetch"
    /\ last.ret.tag = "data"
    /\ FetcherOf(The(last.key)) # None
    /\ ~isStale(entries, The(last.key))
    /\ last.ret.val = Entry(entries, The(last.key)).data

\* C16: getOrFetch on a missing or stale key with no registered fetcher, and refetch
\* on any key with no registered fetcher (also after unregisterFetcher), return the
\* "Missing fetcher" error, change no entry (invalidatedAt included), leave no fetch
\* suspended and notify nobody.
C16_MissingFetcher ==
    [][last'.op \in {"getOrFetch", "refetch"} =>
          \A key \in Keys \cap last'.key :
              (FetcherOf(key) = None
                 /\ (last'.op = "getOrFetch" => StaleNow(entries, key))) =>
                  /\ last'.ret = Ret("error", "Missing fetcher")
                  /\ entries' = entries
                  /\ inflight' = inflight
                  /\ last'.invoked = <<>>
                  /\ last'.notes = <<>>]_vars

\* C16 witness: a fetch call has returned "Missing fetcher" on a cached entry that is
\* not invalidated and would refetch on invalidation.
C16_Witness ==
    /\ last.op \in {"getOrFetch", "refetch"}
    /\ last.ret = Ret("error", "Missing fetcher")
    /\ Has(entries, The(last.key))
    /\ Entry(entries, The(last.key)).meta.invalidatedAt = None
    /\ Entry(entries, The(last.key)).policy.refetchOnInvalidate

\* every notification of notes handed to every subscriber of subs, in order
RECURSIVE ToAll(_, _)
ToAll(notes, subs) ==
    IF notes = <<>> THEN <<>>
    ELSE [i \in 1..Len(subs) |->
             [to |-> subs[i].id, key |-> Head(notes).key, entry |-> Head(notes).entry]]
           \o ToAll(Tail(notes), subs)

\* the call about to be made, had no subscriber been one that throws
QuietSt0 ==
    [St0 EXCEPT !.subs = [i \in 1..Len(subscribers) |-> [subscribers[i] EXCEPT !.throws = FALSE]]]

\* C17: a subscriber that throws does not affect the store: every notification of a
\* call reaches every subscriber, those after the one that throws included; the call
\* (set, invalidate, remove, clear, a fetch completion) raises nothing; and the
\* entries, the suspended fetches and the result are those of the same call made
\* with subscribers that do not throw.
C17_SubscriberThrowIsContained ==
    [][/\ last'.delivered = ToAll(last'.notes, subscribers)
       /\ last'.ret.tag # "throw"
       /\ \A key \in SubKeys \cap last'.key :
             /\ last'.op = "set" =>
                   \A policy \in RulePolicyArgs :
                       Set(key, "d1", policy) =>
                           /\ entries' = set(QuietSt0, key, "d1", policy).entries
                           /\ inflight' = set(QuietSt0, key, "d1", policy).inflight
             /\ last'.op = "invalidate" =>
                   /\ entries' = invalidate(QuietSt0, key).entries
                   /\ inflight' = invalidate(QuietSt0, key).inflight
             /\ last'.op = "remove" =>
                   /\ entries' = remove(QuietSt0, key).entries
                   /\ inflight' = remove(QuietSt0, key).inflight
       /\ last'.op = "clear" =>
             /\ entries' = clear(QuietSt0).entries
             /\ inflight' = clear(QuietSt0).inflight
       /\ last'.op \in {"getOrFetch.done", "refetch.done"} =>
             \A task \in Tasks :
                 Complete(task) =>
                     \A st \in {[QuietSt0 EXCEPT !.inflight = @ (-) SetToBag({task})]} :
                         \A r \in {IF task.op = "refetch" THEN refetchDone(st, task)
                                    ELSE getOrFetchDone(st, task)} :
                             /\ entries' = r.st.entries
                             /\ inflight' = r.st.inflight
                             /\ last'.ret = r.ret]_vars

\* C17 witness: a call has notified three subscribers of which the second throws, and
\* the third has received what the first received.
C17_Witness ==
    /\ Len(subscribers) = 3
    /\ subscribers[2].throws
    /\ last.op \in {"set", "invalidate", "remove", "clear", "getOrFetch.done", "refetch.done"}
    /\ last.notes # <<>>
    /\ \A i \in 1..Len(last.notes) :
          \E j, k \in 1..Len(last.delivered) :
              /\ j < k
              /\ last.delivered[j] = [to |-> subscribers[2].id, key |-> last.notes[i].key,
                                      entry |-> last.notes[i].entry]
              /\ last.delivered[k] = [to |-> subscribers[3].id, key |-> last.notes[i].key,
                                      entry |-> last.notes[i].entry]

\* one notification (key, entry) handed to each subscriber
Once(key, entry) == ToAll(<<[key |-> key, entry |-> entry]>>, subscribers)

\* C18 (as claimed): set, and invalidate of an existing key, hand exactly one
\* notification (key, entry) to each subscriber; remove and clear hand exactly one
\* notification (key, null) per key they removed; nothing is handed out for a key the
\* call did not affect (invalidate or remove of a key with no entry).
C18_OneNotificationPerAffectedKey ==
    [][/\ \A key \in SubKeys \cap last'.key :
             /\ last'.op = "set" =>
                   last'.delivered = Once(key, get(entries', key))
             /\ last'.op = "invalidate" =>
                   last'.delivered
                     = IF Has(entries, key) THEN Once(key, get(entries', key)) ELSE <<>>
             /\ last'.op = "remove" =>
                   last'.delivered = IF Has(entries, key) THEN Once(key, None) ELSE <<>>
       /\ last'.op = "clear" =>
             /\ Len(last'.notes) = Len(entries)
             /\ {last'.notes[i] : i \in 1..Len(last'.notes)}
                   = {[key |-> k, entry |-> None] : k \in StoredKeys}
             /\ last'.delivered = ToAll(last'.notes, subscribers)]_vars

\* a getOrFetch or refetch of key is suspended on its fetcher
Suspended(key) == \E task \in Tasks : task.key = key /\ BagIn(task, inflight)

\* C19: while a fetch of a key is suspended, a set on the key takes effect at once and
\* leaves the fetch suspended; when a fetch completes, a resolved value replaces
\* whatever the entry held (the completion is the last write), a failure leaves the
\* data and updatedAt of the last write in place; and no step moves an entry's
\* updatedAt back.
C19_LastWriteWins ==
    [][/\ last'.op = "set" =>
             \A key \in Keys \cap last'.key :
                 Suspended(key) =>
                     /\ Has(entries', key)
                     /\ Entry(entries', key).data = last'.ret.val
                     /\ Entry(entries', key).meta.updatedAt = now
                     /\ inflight' = inflight
       /\ last'.op \in {"getOrFetch.done", "refetch.done"} =>
             \A task \in Tasks :
                 Complete(task) =>
                     IF task.fetcher.ok
                     THEN /\ Has(entries', task.key)
                          /\ Entry(entries', task.key).data = task.fetcher.value
                          /\ Entry(entries', task.key).meta.updatedAt = now
                     ELSE /\ Has(entries', task.key) <=> Has(entries, task.key)
                          /\ Has(entries, task.key) =>
                                /\ Entry(entries', task.key).data = Entry(entries, task.key).data
                                /\ Entry(entries', task.key).meta.updatedAt
                                      = Entry(entries, task.key).meta.updatedAt
       /\ \A key \in Keys :
             (Has(entries, key) /\ Has(entries', key)) =>
                 Entry(entries', key).meta.updatedAt >= Entry(entries, key).meta.updatedAt]_vars

\* C19 witness: a set has written a key whose fetch is suspended; the entry holds the
\* data of the set and the fetch is still to complete.
C19_Witness ==
    /\ last.op = "set"
    /\ Suspended(The(last.key))
    /\ Has(entries, The(last.key))
    /\ Entry(entries, The(last.key)).data = last.ret.val
    /\ Entry(entries, The(last.key)).meta.invalidatedAt = None

\* C20: getOrFetch and refetch raise nothing to their caller: whatever the store
\* holds, whether the fetcher resolves, rejects or throws at once, and whether a
\* subscriber throws, the call either is suspended on its fetcher or has ended with
\* {data} or {error}, and a call resumed from its fetcher ends with {data} or {error};
\* with a fetcher that throws at once the call ends with {error} without suspending.
C20_FetchNeverRaises ==
    /\ last.op \in {"getOrFetch", "refetch"} =>
          /\ last.ret.tag \in {"data", "error", "pending"}
          /\ (FetcherOf(The(last.key)) = Some(ThrowingFetcher) /\ last.invoked # <<>>) =>
                last.ret = [tag |-> "error", val |-> "thrown"]
    /\ last.op \in {"getOrFetch.done", "refetch.done"} =>
          last.ret.tag \in {"data", "error"}

\* C20 witness: refetch has ended with {error} on a fetcher that throws at once, for
\* an entry that refetches on invalidation (so the catch has re-entered refetch),
\* with a subscriber that throws.
C20_Witness ==
    /\ last.op = "refetch"
    /\ last.ret.tag = "error"
    /\ FetcherOf(The(last.key)) = Some(ThrowingFetcher)
    /\ Len(last.invoked) > 1
    /\ Has(entries, The(last.key))
    /\ Entry(entries, The(last.key)).meta.invalidatedAt = Some(now)
    /\ \E i \in 1..Len(subscribers) : subscribers[i].throws

\* the rules of applyRules name the key for the event
RuleNamed(event, key) ==
    \/ \E a \in Range(EventAddresses(event)) : key = BalancesAccount(a)
    \/ EventContract(event) = Some("prizePool") /\ StartsWith(key, BalancesRoot)
    \/ EventContract(event) = Some("coinFlip") /\ key \in CoinFlipKeys(event)
    \/ EventContract(event) = Some("achievementBadge") /\ key \in BadgeKeySet(event)

\* C21: applyRules on a cache that holds none of the keys its rules name for the
\* event raises nothing and leaves the cache as it was: no entry is created or
\* changed, no fetcher is invoked, no fetch is left suspended, nobody is notified.
\* Stated of the call applyRules would make, from every reachable state.
C21_ApplyRulesNoMatchIsNoOp ==
    \A outcome \in Outcomes, event \in Events :
        (\A key \in StoredKeys : ~RuleNamed(event, key)) =>
            \A r \in {applyRules(St0, outcome, event)} :
                /\ ~r.raised
                /\ r.entries = entries
                /\ r.inflight = inflight
                /\ r.invoked = <<>>
                /\ r.notes = <<>>

\* C21 witness: applyRules has run on a cache that holds an entry, with fetchers
\* registered for balances.account("GA") and games.byId("7"), and has changed,
\* notified and fetched nothing.
C21_Witness ==
    /\ last.op = "applyRules"
    /\ last.notes = <<>>
    /\ last.invoked = <<>>
    /\ entries # <<>>
    /\ FetcherOf(BalancesAccount("GA")) # None
    /\ FetcherOf(GamesById(Str("7"))) # None
    /\ \A i \in 1..Len(entries) : entries[i].value.meta.invalidatedAt = None

\* es still holds every entry of the store, each with the data it has now
KeepsAll(es) ==
    \A key \in StoredKeys :
        Has(es, key) /\ Entry(es, key).data = Entry(entries, key).data

\* C22: without a maxEntries bound an entry once created stays in the store, with
\* its data, across clock advances, invalidate, invalidatePrefix,
\* ensureDependencies, applyRules and fetches that fail; a set or a fetch that
\* succeeds on its key keeps the entry and replaces its data; only remove(key) or
\* clear() deletes it. applyRules is stated of the call it would make from every
\* reachable state.
C22_EntryStaysUntilRemoved ==
    /\ [](maxEntries = 0 =>
            \A outcome \in Outcomes, event \in Events :
                KeepsAll(applyRules(St0, outcome, event).entries))
    /\ [][maxEntries = 0 =>
            \A key \in StoredKeys :
                \/ last'.op = "remove" /\ last'.key = Some(key)
                \/ last'.op = "clear"
                \/ /\ Has(entries', key)
                   /\ \/ Entry(entries', key).data = Entry(entries, key).data
                      \/ SuccessfulWrite(key)]_vars

\* C22 witness: in a store without a bound a refetch of a cached key has failed;
\* the entry is still there, invalidated.
C22_Witness ==
    /\ maxEntries = 0
    /\ last.op = "refetch.done"
    /\ last.ret.tag = "error"
    /\ \E key \in Keys \cap last.key :
           Has(entries, key) /\ Entry(entries, key).meta.invalidatedAt # None

\* C23: validateOrThrowPreconditions raises a QueryCacheInvalidationError carrying
\* the AppError exactly when the precondition checker returned an error, returns
\* normally when the checker returned null, and either way leaves the store, the
\* fetchers and the fetches in flight as they were, notifying nobody.
C23_GuardRaisesExactlyOnError ==
    [][\A opts \in GuardOpts :
          \A err \in validatePreconditions(PreconditionArgs(opts)) :
              ValidateOrThrowPreconditions(opts, err) =>
                  /\ err # None => last'.ret = Ret("throw", "AppError")
                  /\ err = None => last'.ret = Void
                  /\ entries' = entries
                  /\ fetchers' = fetchers
                  /\ inflight' = inflight
                  /\ last'.notes = <<>>
                  /\ last'.invoked = <<>>]_vars

\* C23 witness: the guard has raised over a store that holds an invalidated entry
\* whose refetch is in flight.
C23_Witness ==
    /\ last.op = "validateOrThrowPreconditions"
    /\ last.ret.tag = "throw"
    /\ inflight # EmptyBag
    /\ \E i \in 1..Len(entries) : entries[i].value.meta.invalidatedAt # None

\* C24 (as claimed): the storage slot is a canonical function of the segments: two
\* keys built from strings, numbers, booleans and null address the same slot
\* exactly when they are element-wise equal, so the entry and the fetcher read
\* under a key are the ones written under that same key.
C24_SlotIsCanonical ==
    \A key \in ScalarKeys : Has(entries, key) => Entry(entries, key).key = key

\* the stored payload says of auth what a does
SameAuth(json, a) ==
    /\ json["isAuthenticated"] = a.isAuthenticated
    /\ \A m \in {"userId", "token", "updatedAt"} :
           IF a[m] = None THEN m \notin DOMAIN json
           ELSE m \in DOMAIN json /\ json[m] = The(a[m])

C26_WalletSetPersistsNoAuth ==
    (steps = 1 /\ last.op = "dispatch" /\ last.ret = Ret("state", "WALLET_SET")) =>
        \A item \in localStorage : "auth" \notin DOMAIN item

\* C27 (as claimed): after any sequence of setValue, validate, touch and reset,
\* isValid is true exactly when the field's validator accepts the current value.
C27_IsValidIffAccepted ==
    isValid(field) <=> validateWager(field.value, WagerBounds).success

\* invalidate(key) has just started a background refetch with a fetcher that fails
InvalidatedWithFailingFetcher(key) ==
    /\ last.op = "invalidate"
    /\ last.key = Some(key)
    /\ last.invoked = <<key>>
    /\ FetcherOf(key) # None
    /\ ~The(FetcherOf(key)).ok

\* C28 (as claimed): when the registered fetcher fails, one invalidate(key) of a
\* cached entry with refetchOnInvalidate causes finitely many fetcher invocations:
\* from some point on no refetch of the key is in flight.
C28_RefetchActivityStops ==
    \A key \in SubKeys :
        [](InvalidatedWithFailingFetcher(key) =>
              <>[](\A task \in BagToSet(inflight) : task.key # key))

\* the most recent call was remove(key) or clear()
JustRemoved(key) ==
    \/ last.op = "remove" /\ last.key = Some(key)
    \/ last.op = "clear"

\* C29 (as claimed): removal is terminal: a getOrFetch or refetch that was in
\* flight when remove(key) or clear() ran does not bring the entry back when it
\* completes; get(key) returns none until a caller calls set or starts a new
\* fetch. Stated of a completion that is the first step after the removal.
C29_RemovalIsTerminal ==
    [][\A key \in Keys :
          (JustRemoved(key) /\ last'.op \in {"getOrFetch.done", "refetch.done"}) =>
              ~Has(entries', key)]_vars

\* the call that has just been made suspended at its fetcher
Pending == last'.op \in {"getOrFetch", "refetch"} /\ last'.ret.tag = "pending"

\* C30: overlapping fetches of one key are not coalesced. A getOrFetch of a
\* missing or stale key and a refetch, with a fetcher registered, each invoke
\* the fetcher once and add one fetch to those in flight, whatever is in flight
\* already; each completion that succeeds writes its data with set, so the entry
\* holds the data of the completion applied last.
C30_FetchesAreNotCoalesced ==
    [][\A key \in Keys \cap last'.key :
          /\ (/\ FetcherOf(key) # None
              /\ \/ last'.op = "refetch"
                 \/ last'.op = "getOrFetch" /\ isStale(entries, key)) => Pending
          /\ Pending =>
                /\ last'.invoked = <<key>>
                /\ inflight' =
                      inflight (+) SetToBag({Task(last'.op, key, The(FetcherOf(key)), FALSE)})
          /\ (last'.op \in {"getOrFetch.done", "refetch.done"} /\ last'.ret.tag = "data") =>
                /\ Has(entries', key)
                /\ Entry(entries', key).data = last'.ret.val
                /\ Entry(entries', key).meta.updatedAt = now
                /\ BagCardinality(inflight') = BagCardinality(inflight) - 1]_vars

\* C30 witness: of two overlapping fetches of one key the one with the data "f1"
\* has completed and written the entry while the other, started earlier or later
\* with a fetcher that resolves to "f2", is still in flight.
C30_Witness ==
    /\ last.op \in {"getOrFetch.done", "refetch.done"}
    /\ last.ret = Ret("data", "f1")
    /\ \E key \in Keys \cap last.key :
           /\ Has(entries, key) /\ Entry(entries, key).data = "f1"
           /\ \E task \in BagToSet(inflight) : task.key = key /\ task.fetcher.value = "f2"

\* C31: with maxEntries = N >= 1 the store holds at most N entries in every state
\* between operations, whatever the interleaving of set, invalidate,
\* invalidatePrefix, remove, clear and completions of fetches in flight.
C31_SizeWithinBound ==
    maxEntries # 0 => Len(entries) <= maxEntries

\* C31 witness: sets have written more distinct keys than the bound allows, and
\* a fetch that completed afterwards wrote into the full store.
C31_Witness ==
    /\ maxEntries # 0
    /\ Len(recent) > maxEntries
    /\ Len(entries) = maxEntries
    /\ last.op = "getOrFetch.done"
    /\ last.ret.tag = "data"

\* C32: in every reachable state every stored entry has
\* staleAt = updatedAt + policy.staleTimeMs and createdAt <= updatedAt, whatever
\* sets, invalidations, fetch completions and evictions produced it. The clock
\* never runs backwards.
C32_EntryTimestamps ==
    \A i \in 1..Len(entries) :
        /\ entries[i].value.meta.staleAt =
              entries[i].value.meta.updatedAt + entries[i].value.policy.staleTimeMs
        /\ entries[i].value.meta.createdAt <= entries[i].value.meta.updatedAt

\* C32 witness: an entry created at one clock value was written again at a later
\* one and then invalidated.
C32_Witness ==
    \E i \in 1..Len(entries) :
        /\ entries[i].value.meta.createdAt < entries[i].value.meta.updatedAt
        /\ entries[i].value.meta.invalidatedAt # None

\* C33: eviction inside set is synchronous and starts nothing: a set, and a
\* fetch completion that writes through set, invokes no fetcher and puts no
\* fetch in flight, also when the entry it evicts has refetchOnInvalidate and a
\* fetcher registered, and the bound on the size holds when it returns.
C33_EvictionStartsNothing ==
    [][/\ last'.op = "set" =>
             /\ last'.invoked = <<>>
             /\ inflight' = inflight
             /\ maxEntries # 0 => Len(entries') <= maxEntries
       /\ (last'.op = "getOrFetch.done" /\ last'.ret.tag = "data") =>
             /\ last'.invoked = <<>>
             /\ BagCardinality(inflight') = BagCardinality(inflight) - 1
             /\ maxEntries # 0 => Len(entries') <= maxEntries]_vars

\* C33 witness: a set has just evicted an entry written earlier whose key has a
\* fetcher registered and whose policy has refetchOnInvalidate; nothing is in
\* flight.
C33_Witness ==
    /\ last.op = "set"
    /\ maxEntries # 0
    /\ Len(recent) > maxEntries
    /\ Len(entries) = maxEntries
    /\ steps = Len(recent) + 1
    /\ inflight = EmptyBag
    /\ \E key \in SubKeys :
           /\ FetcherOf(key) # None
           /\ key \in {recent[i] : i \in 1..Len(recent)}
           /\ ~Has(entries, key)

\* what a subscriber that replays the notifications holds after notes, having
\* held the entries in held: (key, entry) stores the entry, (key, null) deletes it
RECURSIVE Replay(_, _)
Replay(held, notes) ==
    IF notes = <<>> THEN held
    ELSE Replay({e \in held : e.key # Head(notes).key} \cup Head(notes).entry, Tail(notes))

\* C34 (as claimed): the store can be rebuilt from its notifications: a subscriber
\* that held the store's entries before an operation and replays the
\* notifications of that operation holds exactly the store's entries after it,
\* also when the operation evicted entries because of maxEntries.
C34_StoreRebuiltFromNotifications ==
    [][Replay(Range(Values(entries)), last'.notes) = Range(Values(entries'))]_vars

\* C35: applyRules changes only entries whose keys its rules name for the event:
\* every stored entry stays stored, an entry whose key is not named is left as
\* it is (other addresses and other namespaces included), and for an event
\* that carries a mutation context only, the entries invalidated are exactly
\* the cached balances.account(a) of the mutation's addresses.
\* Stated of the store applyRules leaves, from every reachable state.
C35_ApplyRulesFrame ==
    \A outcome \in Outcomes, event \in Events :
        \A after \in {applyRules(St0, outcome, event).entries} :
            /\ Len(after) = Len(entries)
            /\ \A key \in StoredKeys :
                  /\ Has(after, key)
                  /\ ~RuleNamed(event, key) => Entry(after, key) = Entry(entries, key)
                  /\ event.contractTx = None =>
                        Entry(after, key) =
                            IF \E a \in Range(EventAddresses(event)) : key = BalancesAccount(a)
                            THEN Invalidated(Entry(entries, key))
                            ELSE Entry(entries, key)

\* C35 witness: applyRules has invalidated balances.account("GA") and nothing
\* else, in a store that also holds balances.account("GB") and an entry of
\* another namespace.
C35_Witness ==
    /\ last.op = "applyRules"
    /\ NotedKeys = {BalancesAccount("GA")}
    /\ Has(entries, BalancesAccount("GA"))
    /\ Has(entries, BalancesAccount("GB"))
    /\ Len(entries) = 3
    /\ \A i \in 1..Len(entries) :
           entries[i].value.meta.invalidatedAt # None
               <=> entries[i].value.key = BalancesAccount("GA")

\* C36: what applyRules invalidates depends on the event and the cache only,
\* never on the outcome: for one event and one cache state the store left, the
\* notifications sent and the fetches started are the same for a successful, a
\* retryable and a terminal outcome.
\* Stated of the calls applyRules would make, from every reachable state.
C36_OutcomeIndependent ==
    \A event \in Events :
        \A o1 \in Outcomes, o2 \in Outcomes :
            \A r1 \in {applyRules(St0, o1, event)}, r2 \in {applyRules(St0, o2, event)} :
                /\ r1.entries = r2.entries
                /\ r1.notes = r2.notes
                /\ r1.inflight = r2.inflight

\* C36 witness: applyRules, handed a failed outcome, has invalidated a cached
\* entry and started its refetch.
C36_Witness ==
    /\ last.op = "applyRules"
    /\ last.notes # <<>>
    /\ last.invoked # <<>>
    /\ \A key \in NotedKeys : Entry(entries, key).meta.invalidatedAt = Some(now)

\* the dispatches the validation is to refuse
FailsValidation(action) ==
    \/ action.type = "AUTH_SET" /\ "" \in {action.payload.userId, action.payload.token}
    \/ action.type = "WALLET_SET" /\ \A meta \in action.payload.meta : meta.address = ""

\* C37: a dispatch that fails validation (AUTH_SET with an empty userId or token,
\* WALLET_SET without meta.address) throws ValidationError, leaves the state and
\* the item in storage as they were and calls no subscriber.
C37_RejectedDispatchNoEffect ==
    [][last'.op = "dispatch" =>
          \A action \in {a \in last'.key : FailsValidation(a)} :
              /\ last'.ret = Ret("throw", "ValidationError")
              /\ state' = state
              /\ localStorage' = localStorage
              /\ last'.delivered = <<>>]_vars

\* C37 witness: a WALLET_SET without an address was refused by a store that has a
\* subscriber, a signed-in user and an item in storage.
C37_Witness ==
    /\ last.op = "dispatch"
    /\ \E action \in last.key : action.type = "WALLET_SET" /\ FailsValidation(action)
    /\ last.ret = Ret("throw", "ValidationError")
    /\ storeSubscribers # <<>>
    /\ state.auth.isAuthenticated
    /\ localStorage # None

\* the flags other than key are the same in f and g
SameOtherFlags(f, g, key) ==
    /\ DOMAIN f \ {key} = DOMAIN g \ {key}
    /\ \A k \in DOMAIN f \ {key} : f[k] = g[k]

\* C38: a dispatch that is accepted changes its own slice only: AUTH_SET and
\* AUTH_CLEAR leave wallet and flags, WALLET_SET and WALLET_CLEAR leave auth and
\* flags, FLAGS_SET and FLAGS_CLEAR leave auth, wallet and every flag but the one
\* named; RESET_ALL leaves the initial state.
C38_SliceFrame ==
    [][(last'.op = "dispatch" /\ last'.ret.tag = "state") =>
          \A action \in last'.key :
              /\ action.type \in {"AUTH_SET", "AUTH_CLEAR"} =>
                     state'.wallet = state.wallet /\ state'.flags = state.flags
              /\ action.type \in {"WALLET_SET", "WALLET_CLEAR"} =>
                     state'.auth = state.auth /\ state'.flags = state.flags
              /\ action.type \in {"FLAGS_SET", "FLAGS_CLEAR"} =>
                     /\ state'.auth = state.auth
                     /\ state'.wallet = state.wallet
                     /\ SameOtherFlags(state.flags, state'.flags, action.payload.key)
              /\ action.type = "RESET_ALL" => state' = initialState]_vars

\* C38 witness: a flag was set in a store that keeps another flag and a connected
\* wallet.
C38_Witness ==
    /\ last.op = "dispatch"
    /\ last.ret = Ret("state", "FLAGS_SET")
    /\ \E action \in last.key :
           /\ action.payload.key \in DOMAIN state.flags
           /\ DOMAIN state.flags \ {action.payload.key} # {}
    /\ state.wallet.connected

\* C39 (as claimed): a store constructed over the same storage key starts with
\* the auth and the flags the previous instance ended with and with the wallet
\* disconnected.
C39_RestoreRoundTrip ==
    [][last'.op = "new GlobalStateStore" =>
          /\ state'.auth = state.auth
          /\ state'.flags = state.flags
          /\ state'.wallet = initialState.wallet]_vars

====
